---------------------------- MODULE Spec2Model ----------------------------
(***************************************************************************)
(* Model of the mission execution module (src/src/gateway/mission.ts) and  *)
(* of the route that calls it (POST /api/mission/execute).                 *)
(*                                                                         *)
(* Text.  A JavaScript string is modelled as a sequence of pieces          *)
(* [w |-> word, n |-> count]: the word w written n times.  A piece with a  *)
(* one-character word is a run of that character; the markers and the      *)
(* failure indicators are pieces of their own.  The words of the alphabet  *)
(* are chosen so that no marker or indicator arises across the border of   *)
(* two pieces, hence "the text includes m" is "some piece carries m".      *)
(*                                                                         *)
(* Time.  Date.now() is the variable now (milliseconds); it advances while *)
(* the handler awaits a collaborator.                                      *)
(***************************************************************************)
EXTENDS Integers, Sequences, FiniteSets, TLC

VARIABLES
    pc,            \* position of the handler: route, ensure, turn_begin, start, wait, logs, done
    now,           \* Date.now()
    body,          \* the parsed JSON body of the HTTP request
    request,       \* the validated MissionExecuteRequest
    startTime,     \* executeMissionTask: startTime
    turn,          \* loop variable of the for loop
    elapsed,       \* elapsed, as computed at the top of the current turn
    turnStart,     \* turnStart of the current turn
    turnTimeout,   \* turnTimeout of the current turn
    prompt,        \* prompt of the current turn
    turnOutputs,   \* turnOutputs: the TurnOutput records pushed so far
    finalOutput,   \* finalOutput
    finalSuccess,  \* finalSuccess
    lastStderr,    \* lastStderr
    stderr,        \* stderr of the turn executed last
    exitCode,      \* exitCode of the turn executed last
    ensureCalls,   \* number of calls of ensureMoltbotGateway
    procsStarted,  \* number of processes started by sandbox.startProcess
    procsRunning,  \* number of started processes that have not exited or been killed
    execEnv,       \* execEnv: the environment built from the request's credentials
    startOptions,  \* the options handed to sandbox.startProcess last
    procExitCode,  \* proc.exitCode of the process started last
    response,      \* what the route answers: HTTP status and JSON body
    callPc,        \* pure-function harness: position
    callArgs,      \* pure-function harness: the arguments
    callRet        \* pure-function harness: the value returned

vars == <<pc, now, body, request, startTime, turn, elapsed, turnStart,
          turnTimeout, prompt, turnOutputs, finalOutput, finalSuccess,
          lastStderr, stderr, exitCode, ensureCalls, procsStarted,
          procsRunning, execEnv, startOptions, procExitCode, response,
          callPc, callArgs, callRet>>

progVars == <<pc, now, body, request, startTime, turn, elapsed, turnStart,
              turnTimeout, prompt, turnOutputs, finalOutput, finalSuccess,
              lastStderr, stderr, exitCode, ensureCalls, procsStarted,
              procsRunning, execEnv, startOptions, procExitCode, response>>

callVars == <<callPc, callArgs, callRet>>

---------------------------------------------------------------------------
(* Bounds of the model *)

\* longest text, in pieces, handed to a pure function by the harness
MaxPieces == 2

---------------------------------------------------------------------------
(* Text *)

Min(a, b) == IF a < b THEN a ELSE b
Max(a, b) == IF a > b THEN a ELSE b

Piece(w, k) == [w |-> w, n |-> k]
Word(w) == <<Piece(w, 1)>>
Run(c, k) == IF k = 0 THEN <<>> ELSE <<Piece(c, k)>>
EmptyStr == <<>>

PieceLen(p) == Len(p.w) * p.n

RECURSIVE StrLen(_)
\* String.prototype.length
StrLen(s) == IF s = <<>> THEN 0 ELSE PieceLen(Head(s)) + StrLen(Tail(s))

\* String.prototype.includes, for a marker or an indicator m
Includes(s, m) == \E i \in 1..Len(s) : s[i].w = m /\ s[i].n >= 1

\* toLowerCase of one word of the alphabet
LowerWord(w) ==
    CASE w = "Error:" -> "error:"
      [] w = "FAILED" -> "failed"
      [] w = "Missing" -> "missing"
      [] w = "TODO:" -> "todo:"
      [] w = "[TASK_COMPLETE]" -> "[task_complete]"
      [] w = "[NEEDS_REFINEMENT]" -> "[needs_refinement]"
      [] w = "X" -> "x"
      [] OTHER -> w

\* String.prototype.toLowerCase
ToLowerCase(s) == [i \in 1..Len(s) |-> Piece(LowerWord(s[i].w), s[i].n)]

RECURSIVE Take(_, _)
\* s.slice(0, k): the first k characters.  A run is cut at any place; a
\* longer word that is cut leaves its first characters, kept as that many
\* characters "?" (no marker or indicator is a proper prefix of a word).
Take(s, k) ==
    IF s = <<>> \/ k <= 0 THEN <<>>
    ELSE LET p == Head(s)
         IN  IF PieceLen(p) <= k
             THEN <<p>> \o Take(Tail(s), k - PieceLen(p))
             ELSE IF Len(p.w) = 1 THEN <<Piece(p.w, k)>>
                  ELSE (IF k \div Len(p.w) > 0
                        THEN <<Piece(p.w, k \div Len(p.w))>> ELSE <<>>)
                       \o Run("?", k % Len(p.w))

RECURSIVE TakeLast(_, _)
\* s.slice(-k) for k > 0: the last k characters.  A run is cut at any
\* place; a longer word that is cut leaves its last characters, kept as
\* that many characters "?".
TakeLast(s, k) ==
    IF s = <<>> \/ k <= 0 THEN <<>>
    ELSE LET p == s[Len(s)]
             front == SubSeq(s, 1, Len(s) - 1)
         IN  IF PieceLen(p) <= k
             THEN TakeLast(front, k - PieceLen(p)) \o <<p>>
             ELSE IF Len(p.w) = 1 THEN <<Piece(p.w, k)>>
                  ELSE Run("?", k % Len(p.w))
                       \o (IF k \div Len(p.w) > 0
                           THEN <<Piece(p.w, k \div Len(p.w))>> ELSE <<>>)

\* String.prototype.startsWith of a string of the request
StrStartsWith(str, prefix) ==
    Len(str) >= Len(prefix) /\ SubSeq(str, 1, Len(prefix)) = prefix

\* String.prototype.includes of a string of the request
StrIncludes(str, m) ==
    \E i \in 1..(Len(str) - Len(m) + 1) : SubSeq(str, i, i + Len(m) - 1) = m

UPPER_CASE == "ABCDEFGHIJKLMNOPQRSTUVWXYZ"
LOWER_CASE == "abcdefghijklmnopqrstuvwxyz"

\* toLowerCase of one character
LowerChar(c) ==
    IF \E i \in 1..Len(UPPER_CASE) : SubSeq(UPPER_CASE, i, i) = c
    THEN LET i == CHOOSE k \in 1..Len(UPPER_CASE) : SubSeq(UPPER_CASE, k, k) = c
         IN  SubSeq(LOWER_CASE, i, i)
    ELSE c

RECURSIVE StrToLowerCase(_)
\* String.prototype.toLowerCase of a string of the request
StrToLowerCase(str) ==
    IF str = "" THEN ""
    ELSE LowerChar(SubSeq(str, 1, 1)) \o StrToLowerCase(SubSeq(str, 2, Len(str)))

RECURSIVE Repeat(_, _)
\* the text s written k times
Repeat(s, k) == IF k <= 0 THEN <<>> ELSE s \o Repeat(s, k - 1)

\* a JavaScript string is falsy exactly when it is empty
Truthy(s) == StrLen(s) > 0

---------------------------------------------------------------------------
(* Constants of mission.ts *)

SINGLE_SHOT_TIMEOUT_MS == 300000
MULTI_TURN_TOTAL_BUDGET_MS == 270000
MULTI_TURN_PER_TURN_CAP_MS == 180000
MULTI_TURN_MIN_REMAINING_MS == 60000

ERROR_INDICATORS ==
    {"error:", "failed", "todo:", "fixme", "not implemented", "incomplete",
     "missing", "broken"}

DONE_MARKER == "[TASK_COMPLETE]"
REFINE_MARKER == "[NEEDS_REFINEMENT]"

\* output.length > 100 in checkCompletion
HEURISTIC_MIN_LENGTH == 100
\* lastStderr.slice(0, 500)
ERROR_MAX_LENGTH == 500
\* Math.min(..., 5) in validateMissionRequest
MAX_ITERATIONS_CAP == 5

---------------------------------------------------------------------------
(* checkCompletion *)

\* a plausible slip: the exit code is looked at before the done marker
checkCompletion_exitFirst(output, code) ==
    IF code # 0 THEN FALSE
    ELSE IF Includes(output, DONE_MARKER) THEN TRUE
    ELSE IF Includes(output, REFINE_MARKER) THEN FALSE
    ELSE IF StrLen(output) > HEURISTIC_MIN_LENGTH
         THEN ~ \E ind \in ERROR_INDICATORS : Includes(ToLowerCase(output), ind)
         ELSE FALSE

\* a plausible slip: the refinement marker is not looked at
checkCompletion_noRefine(output, code) ==
    IF Includes(output, DONE_MARKER) THEN TRUE
    ELSE IF code # 0 THEN FALSE
    ELSE IF StrLen(output) > HEURISTIC_MIN_LENGTH
         THEN ~ \E ind \in ERROR_INDICATORS : Includes(ToLowerCase(output), ind)
         ELSE FALSE

\* a plausible slip: >= instead of > in the length test
checkCompletion_atLeast(output, code) ==
    IF Includes(output, DONE_MARKER) THEN TRUE
    ELSE IF code # 0 THEN FALSE
    ELSE IF Includes(output, REFINE_MARKER) THEN FALSE
    ELSE IF StrLen(output) >= HEURISTIC_MIN_LENGTH
         THEN ~ \E ind \in ERROR_INDICATORS : Includes(ToLowerCase(output), ind)
         ELSE FALSE

\* a plausible slip: the heuristic is trusted only after the first turn
checkCompletion_turnAware(output, code) ==
    IF Includes(output, DONE_MARKER) THEN TRUE
    ELSE IF code # 0 THEN FALSE
    ELSE IF Includes(output, REFINE_MARKER) THEN FALSE
    ELSE IF turn > 1 /\ StrLen(output) > HEURISTIC_MIN_LENGTH
         THEN ~ \E ind \in ERROR_INDICATORS : Includes(ToLowerCase(output), ind)
         ELSE FALSE

checkCompletion(output, code) ==
    \* 1. explicit completion marker
    IF Includes(output, DONE_MARKER) THEN TRUE
    \* 2. process failure
    ELSE IF code # 0 THEN FALSE
    \* 3. explicit refinement request
    ELSE IF Includes(output, REFINE_MARKER) THEN FALSE
    \* 4. heuristic: clean output with sufficient length
    ELSE IF StrLen(output) > HEURISTIC_MIN_LENGTH
            /\ LET lowerOutput == ToLowerCase(output)
                   hasErrors == \E indicator \in ERROR_INDICATORS :
                                    Includes(lowerOutput, indicator)
               IN  ~ hasErrors
         THEN TRUE
    \* 5. default: not completed
    ELSE FALSE

---------------------------------------------------------------------------
(* JavaScript values of the request body.  A number v is kept as n = 2 * v, *)
(* so that halves can be written and Math.floor has something to do.        *)

Undef == [t |-> "undefined", s |-> "", n |-> 0]
JStr(s) == [t |-> "string", s |-> s, n |-> 0]
JNum(v) == [t |-> "number", s |-> "", n |-> 2 * v]
JHalves(h) == [t |-> "number", s |-> "", n |-> h]

\* typeof v !== 'string' || !v
NotNonEmptyString(v) == v.t # "string" \/ v.s = ""

\* a plausible slip: the upper limit is not applied
ClampIterations_noCap(v) ==
    JNum(Max(1, v.n \div 2))

\* a plausible slip: Math.ceil in the place of Math.floor
ClampIterations_ceil(v) ==
    JNum(Max(1, Min((v.n + 1) \div 2, MAX_ITERATIONS_CAP)))

\* Math.max(1, Math.min(Math.floor(v), 5)) of a number v
ClampIterations(v) ==
    JNum(Max(1, Min(v.n \div 2, MAX_ITERATIONS_CAP)))

\* api_credentials as sent: a value of type t; an object has the three
\* properties, each a JavaScript value
JCreds(provider, api_key, base_url) ==
    [t |-> "object", provider |-> provider, api_key |-> api_key,
     base_url |-> base_url]
JNotObject(t) ==
    [t |-> t, provider |-> Undef, api_key |-> Undef, base_url |-> Undef]

validProviders ==
    {"anthropic", "openai", "xai", "moonshot", "cloudflare-ai-gateway",
     "openrouter", "minimax"}

\* the ApiCredentials of a request, or undefined
NoCredentials ==
    [defined |-> FALSE, provider |-> "", api_key |-> "", base_url |-> Undef]

\* a plausible slip: an empty api_key is let through
validateApiCredentials_emptyKey(creds) ==
    IF creds.t # "object" THEN NoCredentials
    ELSE IF creds.provider.t # "string" \/ creds.provider.s \notin validProviders
    THEN NoCredentials
    ELSE IF creds.api_key.t # "string" THEN NoCredentials
    ELSE [defined |-> TRUE,
          provider |-> creds.provider.s,
          api_key |-> creds.api_key.s,
          base_url |-> IF creds.base_url.t = "string" THEN creds.base_url
                       ELSE Undef]

validateApiCredentials(creds) ==
    \* !creds || typeof creds !== 'object'
    IF creds.t # "object" THEN NoCredentials
    ELSE IF creds.provider.t # "string" \/ creds.provider.s \notin validProviders
    THEN NoCredentials
    ELSE IF NotNonEmptyString(creds.api_key) THEN NoCredentials
    ELSE [defined |-> TRUE,
          provider |-> creds.provider.s,
          api_key |-> creds.api_key.s,
          base_url |-> IF creds.base_url.t = "string" THEN creds.base_url
                       ELSE Undef]

\* typeof v === 'string' ? v : undefined
OptionalString(v) == IF v.t = "string" THEN v ELSE Undef

NoRequest ==
    [agent_id |-> "", task_id |-> "", task_subject |-> "",
     task_description |-> "", soul_content |-> "",
     model_override |-> Undef, team_context |-> Undef,
     methodology_context |-> Undef, agent_memory |-> Undef,
     project_memory |-> Undef, project_communications |-> Undef,
     project_document_index |-> Undef,
     api_credentials |-> NoCredentials, max_iterations |-> Undef]

Invalid(msg) == [valid |-> FALSE, error |-> Word(msg), request |-> NoRequest]

\* a plausible slip: an empty soul_content is let through
validateMissionRequest_emptySoul(b) ==
    IF b.kind # "object"
    THEN Invalid("Request body must be a JSON object")
    ELSE IF NotNonEmptyString(b.agent_id)
    THEN Invalid("agent_id is required and must be a string")
    ELSE IF NotNonEmptyString(b.task_id)
    THEN Invalid("task_id is required and must be a string")
    ELSE IF NotNonEmptyString(b.task_subject)
    THEN Invalid("task_subject is required and must be a string")
    ELSE IF b.task_description.t # "string"
    THEN Invalid("task_description must be a string")
    ELSE IF b.soul_content.t # "string"
    THEN Invalid("soul_content is required and must be a string")
    ELSE [valid |-> TRUE, error |-> EmptyStr,
          request |->
            [agent_id |-> b.agent_id.s,
             task_id |-> b.task_id.s,
             task_subject |-> b.task_subject.s,
             task_description |-> b.task_description.s,
             soul_content |-> b.soul_content.s,
             model_override |-> OptionalString(b.model_override),
             team_context |-> OptionalString(b.team_context),
             methodology_context |-> OptionalString(b.methodology_context),
             agent_memory |-> OptionalString(b.agent_memory),
             project_memory |-> OptionalString(b.project_memory),
             project_communications |->
                OptionalString(b.project_communications),
             project_document_index |->
                OptionalString(b.project_document_index),
             api_credentials |-> validateApiCredentials(b.api_credentials),
             max_iterations |->
                IF b.max_iterations.t = "number"
                THEN ClampIterations(b.max_iterations)
                ELSE Undef]]

validateMissionRequest(b) ==
    IF b.kind # "object"
    THEN Invalid("Request body must be a JSON object")
    ELSE IF NotNonEmptyString(b.agent_id)
    THEN Invalid("agent_id is required and must be a string")
    ELSE IF NotNonEmptyString(b.task_id)
    THEN Invalid("task_id is required and must be a string")
    ELSE IF NotNonEmptyString(b.task_subject)
    THEN Invalid("task_subject is required and must be a string")
    ELSE IF b.task_description.t # "string"
    THEN Invalid("task_description must be a string")
    ELSE IF NotNonEmptyString(b.soul_content)
    THEN Invalid("soul_content is required and must be a string")
    ELSE [valid |-> TRUE, error |-> EmptyStr,
          request |->
            [agent_id |-> b.agent_id.s,
             task_id |-> b.task_id.s,
             task_subject |-> b.task_subject.s,
             task_description |-> b.task_description.s,
             soul_content |-> b.soul_content.s,
             model_override |-> OptionalString(b.model_override),
             team_context |-> OptionalString(b.team_context),
             methodology_context |-> OptionalString(b.methodology_context),
             agent_memory |-> OptionalString(b.agent_memory),
             project_memory |-> OptionalString(b.project_memory),
             project_communications |->
                OptionalString(b.project_communications),
             project_document_index |->
                OptionalString(b.project_document_index),
             api_credentials |-> validateApiCredentials(b.api_credentials),
             max_iterations |->
                IF b.max_iterations.t = "number"
                THEN ClampIterations(b.max_iterations)
                ELSE Undef]]

---------------------------------------------------------------------------
(* buildCredentialEnvVars.  A Record<string, string> is a function from the *)
(* names of its properties to their values.                                 *)

XAI_BASE_URL == "https://api.x.ai/v1"
OPENROUTER_BASE_URL == "https://openrouter.ai/api/v1"
MINIMAX_BASE_URL == "https://api.minimaxi.chat/v1"

\* the base URL of a Cloudflare AI Gateway, as a request may send it
GATEWAY_URL == "https://gateway.ai.cloudflare.com/v1/acct/gw"

\* credentials.base_url is truthy: a string that is not empty
HasBaseUrl(credentials) ==
    credentials.base_url.t = "string" /\ credentials.base_url.s # ""

\* credentials.base_url || dflt
BaseUrlOr(credentials, dflt) ==
    IF HasBaseUrl(credentials) THEN credentials.base_url.s ELSE dflt

\* base_url.match(/\/v1\/([^/]+)\/([^/]+)/) on the base URLs of the model:
\* the two captured groups, or no match
MatchGateway(url) ==
    IF url = GATEWAY_URL THEN <<"acct", "gw">> ELSE <<>>

\* envVars.KEY = api_key; if (credentials.base_url) envVars.URL = base_url
KeyAndOptionalUrl(credentials, keyName, urlName) ==
    IF HasBaseUrl(credentials)
    THEN (keyName :> credentials.api_key) @@ (urlName :> credentials.base_url.s)
    ELSE (keyName :> credentials.api_key)

\* a plausible slip: the default base URL wins over the one provided
buildCredentialEnvVars_defaultWins(credentials) ==
    CASE credentials.provider = "anthropic" ->
            KeyAndOptionalUrl(credentials, "ANTHROPIC_API_KEY", "ANTHROPIC_BASE_URL")
      [] credentials.provider = "openai" ->
            KeyAndOptionalUrl(credentials, "OPENAI_API_KEY", "OPENAI_BASE_URL")
      [] credentials.provider = "xai" ->
            ("OPENAI_API_KEY" :> credentials.api_key)
            @@ ("OPENAI_BASE_URL" :> XAI_BASE_URL)
      [] credentials.provider = "moonshot" ->
            KeyAndOptionalUrl(credentials, "MOONSHOT_API_KEY", "MOONSHOT_BASE_URL")
      [] credentials.provider = "openrouter" ->
            ("OPENAI_API_KEY" :> credentials.api_key)
            @@ ("OPENAI_BASE_URL" :> BaseUrlOr(credentials, OPENROUTER_BASE_URL))
      [] credentials.provider = "minimax" ->
            ("OPENAI_API_KEY" :> credentials.api_key)
            @@ ("OPENAI_BASE_URL" :> BaseUrlOr(credentials, MINIMAX_BASE_URL))
      [] credentials.provider = "cloudflare-ai-gateway" ->
            LET match == IF HasBaseUrl(credentials)
                         THEN MatchGateway(credentials.base_url.s) ELSE <<>>
            IN  IF match # <<>>
                THEN ("CLOUDFLARE_AI_GATEWAY_API_KEY" :> credentials.api_key)
                     @@ ("CF_AI_GATEWAY_ACCOUNT_ID" :> match[1])
                     @@ ("CF_AI_GATEWAY_GATEWAY_ID" :> match[2])
                ELSE ("CLOUDFLARE_AI_GATEWAY_API_KEY" :> credentials.api_key)

buildCredentialEnvVars(credentials) ==
    CASE credentials.provider = "anthropic" ->
            KeyAndOptionalUrl(credentials, "ANTHROPIC_API_KEY", "ANTHROPIC_BASE_URL")
      [] credentials.provider = "openai" ->
            KeyAndOptionalUrl(credentials, "OPENAI_API_KEY", "OPENAI_BASE_URL")
      [] credentials.provider = "xai" ->
            \* xAI uses OpenAI-compatible API
            ("OPENAI_API_KEY" :> credentials.api_key)
            @@ ("OPENAI_BASE_URL" :> BaseUrlOr(credentials, XAI_BASE_URL))
      [] credentials.provider = "moonshot" ->
            KeyAndOptionalUrl(credentials, "MOONSHOT_API_KEY", "MOONSHOT_BASE_URL")
      [] credentials.provider = "openrouter" ->
            ("OPENAI_API_KEY" :> credentials.api_key)
            @@ ("OPENAI_BASE_URL" :> BaseUrlOr(credentials, OPENROUTER_BASE_URL))
      [] credentials.provider = "minimax" ->
            ("OPENAI_API_KEY" :> credentials.api_key)
            @@ ("OPENAI_BASE_URL" :> BaseUrlOr(credentials, MINIMAX_BASE_URL))
      [] credentials.provider = "cloudflare-ai-gateway" ->
            LET match == IF HasBaseUrl(credentials)
                         THEN MatchGateway(credentials.base_url.s) ELSE <<>>
            IN  IF match # <<>>
                THEN ("CLOUDFLARE_AI_GATEWAY_API_KEY" :> credentials.api_key)
                     @@ ("CF_AI_GATEWAY_ACCOUNT_ID" :> match[1])
                     @@ ("CF_AI_GATEWAY_GATEWAY_ID" :> match[2])
                ELSE ("CLOUDFLARE_AI_GATEWAY_API_KEY" :> credentials.api_key)

\* let execEnv: undefined, or the environment built from the credentials
NoEnv == [defined |-> FALSE, env |-> <<>>]
ExecEnvOf(req) ==
    IF req.api_credentials.defined
    THEN [defined |-> TRUE, env |-> buildCredentialEnvVars(req.api_credentials)]
    ELSE NoEnv

\* the second argument of sandbox.startProcess: { env: execEnv }, or none
StartOptionsOf(env) ==
    IF env.defined THEN [given |-> TRUE, env |-> env.env]
    ELSE [given |-> FALSE, env |-> <<>>]

---------------------------------------------------------------------------
(* executeMissionTask: the pure parts *)

\* const maxIterations = request.max_iterations || 1
MaxIterationsOf(req) ==
    IF req.max_iterations.t = "number" /\ req.max_iterations.n # 0
    THEN req.max_iterations.n \div 2
    ELSE 1

maxIterations == MaxIterationsOf(request)
isMultiTurn == maxIterations > 1

NoTurn == [start |-> FALSE, timeout |-> 0]
Grant(t) == [start |-> TRUE, timeout |-> t]

\* a plausible slip: the check asks only whether any time is left
TurnTimeout_noMinimum(multi, el) ==
    IF ~ multi THEN Grant(SINGLE_SHOT_TIMEOUT_MS)
    ELSE LET remaining == MULTI_TURN_TOTAL_BUDGET_MS - el
         IN  IF remaining < 0 THEN NoTurn
             ELSE Grant(Min(remaining, MULTI_TURN_PER_TURN_CAP_MS))

\* a plausible slip: the per-turn cap is not applied
TurnTimeout_noCap(multi, el) ==
    IF ~ multi THEN Grant(SINGLE_SHOT_TIMEOUT_MS)
    ELSE LET remaining == MULTI_TURN_TOTAL_BUDGET_MS - el
         IN  IF remaining < MULTI_TURN_MIN_REMAINING_MS THEN NoTurn
             ELSE Grant(remaining)

\* a plausible slip: the budget is checked in single-shot mode too
TurnTimeout_budgetAlways(multi, el) ==
    LET remaining == MULTI_TURN_TOTAL_BUDGET_MS - el
    IN  IF remaining < MULTI_TURN_MIN_REMAINING_MS THEN NoTurn
        ELSE IF ~ multi THEN Grant(SINGLE_SHOT_TIMEOUT_MS)
        ELSE Grant(Min(remaining, MULTI_TURN_PER_TURN_CAP_MS))

\* a plausible slip: a turn that may start is granted the whole cap
TurnTimeout_fromCap(multi, el) ==
    IF ~ multi THEN Grant(SINGLE_SHOT_TIMEOUT_MS)
    ELSE LET remaining == MULTI_TURN_TOTAL_BUDGET_MS - el
         IN  IF remaining < MULTI_TURN_MIN_REMAINING_MS THEN NoTurn
             ELSE Grant(MULTI_TURN_PER_TURN_CAP_MS)

\* the per-turn timeout, or the break of the loop
TurnTimeout(multi, el) ==
    IF ~ multi
    THEN Grant(SINGLE_SHOT_TIMEOUT_MS)
    ELSE LET remaining == MULTI_TURN_TOTAL_BUDGET_MS - el
         IN  IF remaining < MULTI_TURN_MIN_REMAINING_MS
             THEN NoTurn
             ELSE Grant(Min(remaining, MULTI_TURN_PER_TURN_CAP_MS))

\* a plausible slip: the completed rule is evaluated before the final-turn
\* failure rule
LoopDecision_completedFirst(code, completed, t, maxIter) ==
    IF completed THEN "success"
    ELSE IF code # 0 /\ t = maxIter THEN "failed"
    ELSE IF t = maxIter THEN "exhausted"
    ELSE "continue"

\* a plausible slip: a completed turn does not stop the loop
LoopDecision_noStop(code, completed, t, maxIter) ==
    IF code # 0 /\ t = maxIter THEN "failed"
    ELSE IF t = maxIter THEN "exhausted"
    ELSE "continue"

\* a plausible slip: a failed process ends the loop on any turn
LoopDecision_failFast(code, completed, t, maxIter) ==
    IF code # 0 THEN "failed"
    ELSE IF completed THEN "success"
    ELSE IF t = maxIter THEN "exhausted"
    ELSE "continue"

\* what the loop does after a turn has been recorded
LoopDecision(code, completed, t, maxIter) ==
    IF code # 0 /\ t = maxIter THEN "failed"
    ELSE IF completed THEN "success"
    ELSE IF t = maxIter THEN "exhausted"
    ELSE "continue"

\* a plausible slip: a last turn without a completion marker is a failure
SuccessOf_strict(decision, code) ==
    decision = "success"

\* finalSuccess as the loop leaves it
SuccessOf(decision, code) ==
    CASE decision = "failed" -> FALSE
      [] decision = "success" -> TRUE
      [] decision = "exhausted" -> (code = 0)
      [] OTHER -> FALSE

\* a plausible slip: the index is counted from 0
TurnOutput_fromZero(t, out, dur, completed) ==
    [turn |-> t - 1, output |-> out, duration_ms |-> dur,
     completed |-> completed]

TurnOutput(t, out, dur, completed) ==
    [turn |-> t, output |-> out, duration_ms |-> dur, completed |-> completed]

NoResponse ==
    [status |-> 0, present |-> {}, success |-> FALSE, output |-> EmptyStr,
     error |-> EmptyStr, duration_ms |-> 0, turns_used |-> 0,
     turn_outputs |-> <<>>]

\* a plausible slip: the error is not cut to 500 characters
ErrorText_noSlice(ls, tos) ==
    IF Truthy(ls) THEN ls
    ELSE IF tos # <<>> /\ Truthy(tos[Len(tos)].output)
         THEN Word("Task not completed after ") \o Word(ToString(Len(tos)))
              \o Word(" turn(s)")
         ELSE Word("No output produced")

\* a plausible slip: the fallback looks at the output of the first turn
ErrorText_firstOutput(ls, tos) ==
    IF Truthy(ls)
    THEN Take(ls, ERROR_MAX_LENGTH)
    ELSE IF tos # <<>> /\ Truthy(tos[1].output)
         THEN Word("Task not completed after ") \o Word(ToString(Len(tos)))
              \o Word(" turn(s)")
         ELSE Word("No output produced")

\* the error of an unsuccessful result
ErrorText(ls, tos) ==
    IF Truthy(ls)
    THEN Take(ls, ERROR_MAX_LENGTH)
    ELSE IF tos # <<>> /\ Truthy(tos[Len(tos)].output)
         THEN Word("Task not completed after ") \o Word(ToString(Len(tos)))
              \o Word(" turn(s)")
         ELSE Word("No output produced")

\* a plausible slip: the error is set whether or not the task succeeded
LoopResult_alwaysError(success, out, tos, ls, multi, t) ==
    [status |-> 200,
     present |-> {"success", "output", "duration_ms", "turns_used", "error"}
                   \cup (IF multi THEN {"turn_outputs"} ELSE {}),
     success |-> success,
     output |-> out,
     error |-> ErrorText(ls, tos),
     duration_ms |-> t - startTime,
     turns_used |-> Len(tos),
     turn_outputs |-> IF multi THEN tos ELSE <<>>]

\* a plausible slip: turn_outputs is returned in single-shot mode too
LoopResult_alwaysOutputs(success, out, tos, ls, multi, t) ==
    [status |-> 200,
     present |-> {"success", "output", "duration_ms", "turns_used",
                  "turn_outputs"}
                   \cup (IF success THEN {} ELSE {"error"}),
     success |-> success,
     output |-> out,
     error |-> IF success THEN EmptyStr ELSE ErrorText(ls, tos),
     duration_ms |-> t - startTime,
     turns_used |-> Len(tos),
     turn_outputs |-> tos]

\* the value returned after the loop
LoopResult(success, out, tos, ls, multi, t) ==
    [status |-> 200,
     present |-> {"success", "output", "duration_ms", "turns_used"}
                   \cup (IF multi THEN {"turn_outputs"} ELSE {})
                   \cup (IF success THEN {} ELSE {"error"}),
     success |-> success,
     output |-> out,
     error |-> IF success THEN EmptyStr ELSE ErrorText(ls, tos),
     duration_ms |-> t - startTime,
     turns_used |-> Len(tos),
     turn_outputs |-> IF multi THEN tos ELSE <<>>]

\* error instanceof Error ? error.message : 'Unknown error'
ErrorMessage(thrown) ==
    IF thrown.isError THEN thrown.message ELSE Word("Unknown error")

\* a plausible slip: the catch block returns no error
CatchResult_noError(thrown, t) ==
    [status |-> 200,
     present |-> {"success", "duration_ms"},
     success |-> FALSE,
     output |-> EmptyStr,
     error |-> EmptyStr,
     duration_ms |-> t - startTime,
     turns_used |-> 0,
     turn_outputs |-> <<>>]

\* the value returned by the catch block
CatchResult(thrown, t) ==
    [status |-> 200,
     present |-> {"success", "error", "duration_ms"},
     success |-> FALSE,
     output |-> EmptyStr,
     error |-> ErrorMessage(thrown),
     duration_ms |-> t - startTime,
     turns_used |-> 0,
     turn_outputs |-> <<>>]

\* c.json({ success: false, error: validation.error }, 400)
ValidationResponse(err) ==
    [status |-> 400,
     present |-> {"success", "error"},
     success |-> FALSE,
     output |-> EmptyStr,
     error |-> err,
     duration_ms |-> 0,
     turns_used |-> 0,
     turn_outputs |-> <<>>]

\* a plausible slip: the follow-up prompt is handed no previous output
BuildPrompt_noPrevious(t, prev, maxIter) ==
    IF t = 1
    THEN [builder |-> "buildFirstTurnPrompt", turn |-> 1,
          isMultiTurn |-> maxIter > 1, previousOutput |-> EmptyStr,
          isFinalTurn |-> FALSE]
    ELSE [builder |-> "buildFollowUpTurnPrompt", turn |-> t,
          isMultiTurn |-> maxIter > 1, previousOutput |-> EmptyStr,
          isFinalTurn |-> (t = maxIter)]

\* the prompt of a turn, by the builder that makes it and its arguments
BuildPrompt(t, prev, maxIter) ==
    IF t = 1
    THEN [builder |-> "buildFirstTurnPrompt", turn |-> 1,
          isMultiTurn |-> maxIter > 1, previousOutput |-> EmptyStr,
          isFinalTurn |-> FALSE]
    ELSE [builder |-> "buildFollowUpTurnPrompt", turn |-> t,
          isMultiTurn |-> maxIter > 1, previousOutput |-> prev,
          isFinalTurn |-> (t = maxIter)]

NoPrompt ==
    [builder |-> "", turn |-> 0, isMultiTurn |-> FALSE,
     previousOutput |-> EmptyStr, isFinalTurn |-> FALSE]

---------------------------------------------------------------------------
(* buildFollowUpTurnPrompt, as text.  The literal text of the template is   *)
(* cut into pieces so that the markers are pieces of their own.             *)

\* const maxPreviousLength = 8000
maxPreviousLength == 8000

TRUNCATION_NOTICE == "...(truncated)...\n"

\* sections.join('\n\n---\n\n')
SECTION_SEPARATOR == "\n\n---\n\n"

\* the grave accent of the template, written out: in the text of a module
\* a grave accent opens a quotation
BACKTICK == "<grave accent>"

PREVIOUS_HEADING == "# Previous Turn Output\n\n"
REMINDER_HEADING == "# Task Reminder\n\n**Task ID:** "

\* a plausible slip: >= in the place of > in the length test
TruncatedOutput_atLeast(previousOutput) ==
    IF StrLen(previousOutput) >= maxPreviousLength
    THEN Word(TRUNCATION_NOTICE) \o TakeLast(previousOutput, maxPreviousLength)
    ELSE previousOutput

\* const truncatedOutput = previousOutput.length > maxPreviousLength ? ... 
TruncatedOutput(previousOutput) ==
    IF StrLen(previousOutput) > maxPreviousLength
    THEN Word(TRUNCATION_NOTICE) \o TakeLast(previousOutput, maxPreviousLength)
    ELSE previousOutput

buildFollowUpTurnPrompt(req, t, previousOutput, isFinalTurn) ==
    Word("# Agent: ") \o Word(req.agent_id) \o Word(" (Turn ")
        \o Word(ToString(t)) \o Word(")")
    \o Word(SECTION_SEPARATOR)
    \o Word(PREVIOUS_HEADING) \o TruncatedOutput(previousOutput)
    \o Word(SECTION_SEPARATOR)
    \o Word(REMINDER_HEADING) \o Word(req.task_id)
        \o Word("\n**Subject:** ") \o Word(req.task_subject)
    \o Word(SECTION_SEPARATOR)
    \o Word("# Instructions\n\nReview your previous output above. Look for:\n- Errors, incomplete sections, or missing details\n- Improvements to make the output more complete and correct\n- Any issues flagged in the previous output\n\nRefine your work and provide the improved, complete output.\n\n**When you are done**, end your response with ")
        \o Word(BACKTICK) \o Word(DONE_MARKER) \o Word(BACKTICK)
        \o Word(".\n**If you still need another pass**, end with ")
        \o Word(BACKTICK) \o Word(REFINE_MARKER) \o Word(BACKTICK)
        \o Word(".")
        \o (IF isFinalTurn
            THEN Word("\n\n**This is your final turn.** Provide your best output now.")
            ELSE <<>>)

---------------------------------------------------------------------------
(* buildFirstTurnPrompt, as text.  A string of the request is one piece of  *)
(* the prompt.                                                              *)

planningKeywords ==
    {"create tasks", "generate tasks", "plan tasks", "break down", "task plan"}

detectActionBlockTask(req) ==
    LET subject == req.task_subject
        description == req.task_description
        text == StrToLowerCase(subject \o " " \o description)
    IN  \* [KICKOFF] prefix
        IF StrStartsWith(subject, "[KICKOFF]") THEN TRUE
        \* planning keywords in subject/description
        ELSE IF \E kw \in planningKeywords : StrIncludes(text, kw) THEN TRUE
        \* Jarvis with action block references
        ELSE IF req.agent_id = "jarvis" /\ StrIncludes(text, "action block")
        THEN TRUE
        ELSE FALSE

\* if (request.<field>) sections.push(heading + field): the section of an
\* optional string that is neither undefined nor empty
OptionalSection(heading, v) ==
    IF v.t = "string" /\ v.s # "" THEN <<Word(heading) \o Word(v.s)>>
    ELSE <<>>

RECURSIVE JoinSections(_)
\* sections.join('\n\n---\n\n')
JoinSections(sections) ==
    IF sections = <<>> THEN <<>>
    ELSE IF Len(sections) = 1 THEN sections[1]
    ELSE sections[1] \o Word(SECTION_SEPARATOR) \o JoinSections(Tail(sections))

\* the dash of the template, written out
EM_DASH == "<em dash>"

ACTION_BLOCK_SECTION ==
    Word("# Action Block Format\n\nYou can create tasks and dependencies by emitting structured JSONL between markers.\nMission Control will parse and execute these on your behalf.\n\n")
    \o <<Piece(BACKTICK, 3)>>
    \o Word("\n[ACTIONS_BEGIN]\n{\"action\":\"create_task\",\"ref\":\"T1\",\"subject\":\"Task title\",\"description\":\"Detailed description\",\"priority\":8,\"assign_to\":\"architect\"}\n{\"action\":\"create_task\",\"ref\":\"T2\",\"subject\":\"Another task\",\"description\":\"...\",\"priority\":7,\"assign_to\":\"backend\"}\n{\"action\":\"add_dependency\",\"task_ref\":\"T2\",\"blocked_by_ref\":\"T1\"}\n[ACTIONS_END]\n")
    \o <<Piece(BACKTICK, 3)>>
    \o Word("\n\n**Rules:**\n- One JSON object per line (JSONL format)\n- ")
    \o Word(BACKTICK) \o Word("ref") \o Word(BACKTICK)
    \o Word(" is a label you assign (T1, T2, etc.) ") \o Word(EM_DASH)
    \o Word(" used to wire up dependencies\n- ")
    \o Word(BACKTICK) \o Word("assign_to") \o Word(BACKTICK)
    \o Word(" must be one of: jarvis, architect, backend, frontend, reviewer, hawk\n- ")
    \o Word(BACKTICK) \o Word("priority") \o Word(BACKTICK)
    \o Word(" range: 1 (lowest) to 10 (highest)\n- Maximum 20 actions per block\n- Always include the action block BEFORE your ")
    \o Word(BACKTICK) \o Word(DONE_MARKER) \o Word(BACKTICK)
    \o Word(" marker")

INSTRUCTIONS_STEPS ==
    Word("# Instructions\n\nYou are executing this task as part of the Lifebot project.\n\n1. Read the task description carefully\n2. Implement the required functionality\n3. Ensure the code works and handles basic errors\n4. Report what you")
    \o Word("'") \o Word("ve created or accomplished\n\n")

buildFirstTurnPrompt(req, multi) ==
    LET needsActionBlocks == detectActionBlockTask(req)
        sections ==
            <<Word("# Agent Context\n\n") \o Word(req.soul_content)>>
            \o OptionalSection("# Team Information\n\n", req.team_context)
            \o OptionalSection("# Your Memory (Learnings from previous tasks)\n\n",
                               req.agent_memory)
            \o OptionalSection("# Project Memory\n\n", req.project_memory)
            \o OptionalSection("# Project Communications Log\n\n",
                               req.project_communications)
            \o OptionalSection("# Available Project Documents\n\n",
                               req.project_document_index)
            \o OptionalSection("# Methodology\n\n", req.methodology_context)
            \o <<Word("# Current Task\n\n**Task ID:** ") \o Word(req.task_id)
                 \o Word("\n**Subject:** ") \o Word(req.task_subject)
                 \o Word("\n\n## Description\n\n")
                 \o Word(IF req.task_description # ""
                         THEN req.task_description
                         ELSE "No additional description provided.")>>
            \o (IF needsActionBlocks THEN <<ACTION_BLOCK_SECTION>> ELSE <<>>)
            \o (IF multi
                THEN <<INSTRUCTIONS_STEPS
                       \o Word("**When you are done**, end your response with ")
                       \o Word(BACKTICK) \o Word(DONE_MARKER) \o Word(BACKTICK)
                       \o Word(".\n**If you need another pass** to refine or fix issues, end with ")
                       \o Word(BACKTICK) \o Word(REFINE_MARKER) \o Word(BACKTICK)
                       \o Word(".\n\nBegin the task now.")>>
                ELSE <<INSTRUCTIONS_STEPS \o Word("Begin the task now.")>>)
    IN  JoinSections(sections)

---------------------------------------------------------------------------
(* The command line of a turn.  In the text of a command a single quote, a  *)
(* backslash, a blank and every other character the shell treats specially  *)
(* is a piece of its own; the remaining pieces are words of plain           *)
(* characters.                                                              *)

QUOTE == "'"
BACKSLASH == "\\"

\* what one single quote becomes: '\''
ESCAPED_QUOTE == <<Piece(QUOTE, 1), Piece(BACKSLASH, 1), Piece(QUOTE, 1),
                   Piece(QUOTE, 1)>>

RECURSIVE Escape_noReopen(_)
\* a plausible slip: the quote is escaped without leaving the quoted text
Escape_noReopen(s) ==
    IF s = <<>> THEN <<>>
    ELSE (IF Head(s).w = QUOTE
          THEN Repeat(<<Piece(BACKSLASH, 1), Piece(QUOTE, 1)>>, Head(s).n)
          ELSE <<Head(s)>>)
         \o Escape_noReopen(Tail(s))

RECURSIVE Escape(_)
\* prompt.replace(/'/g, "'\\''")
Escape(s) ==
    IF s = <<>> THEN <<>>
    ELSE (IF Head(s).w = QUOTE
          THEN Repeat(ESCAPED_QUOTE, Head(s).n)
          ELSE <<Head(s)>>)
         \o Escape(Tail(s))

\* let command = `openclaw chat --once --url ws://localhost:18789`, the
\* model flag if request.model_override is truthy, and the quoted prompt
Command(model_override, text) ==
    <<Piece("openclaw", 1), Piece(" ", 1), Piece("chat", 1), Piece(" ", 1),
      Piece("--once", 1), Piece(" ", 1), Piece("--url", 1), Piece(" ", 1),
      Piece("ws://localhost:18789", 1)>>
    \o (IF model_override.defined /\ Truthy(model_override.text)
        THEN <<Piece(" ", 1), Piece("--model", 1), Piece(" ", 1),
               Piece(QUOTE, 1)>>
             \o model_override.text \o <<Piece(QUOTE, 1)>>
        ELSE <<>>)
    \o <<Piece(" ", 1), Piece(QUOTE, 1)>> \o Escape(text) \o <<Piece(QUOTE, 1)>>

---------------------------------------------------------------------------
(* What the environment can do *)

\* Date.now() when the request arrives
StartTimes == {1000}

\* how long ensureMoltbotGateway may take
ReadyDelays == {0, 210000, 210001}

\* how long a turn may take from the start of its process to its logs
WaitDelays == {0, 120000}

\* what a turn may write to stdout
Stdouts ==
    {EmptyStr,
     Run("x", 101),
     Run("x", 101) \o Word(REFINE_MARKER),
     Run("x", 50) \o Word(DONE_MARKER)}

\* what a turn may write to stderr
Stderrs == {EmptyStr, Run("e", 3), Run("e", 501)}

\* proc.exitCode when the wait is over: null while the process has none
NullCode == [isNull |-> TRUE, code |-> 0]
Code(c) == [isNull |-> FALSE, code |-> c]
ExitCodes == {Code(0), Code(1), NullCode}

\* logs.stdout and logs.stderr may be undefined
NoText == [defined |-> FALSE, text |-> EmptyStr]
Text(s) == [defined |-> TRUE, text |-> s]
LogTexts(strs) == {NoText} \cup {Text(s) : s \in strs}

\* what a collaborator may throw: an Error with a message, an Error whose
\* message is long (it quotes the log of a process), an Error made without
\* a message (new Error()), or another value
Throwables ==
    {[isError |-> TRUE, message |-> Word("gateway failed to start")],
     [isError |-> TRUE, message |-> Run("m", 501)],
     [isError |-> TRUE, message |-> EmptyStr],
     [isError |-> FALSE, message |-> EmptyStr]}

GoodBody(mi) ==
    [kind |-> "object",
     agent_id |-> JStr("jarvis"),
     task_id |-> JStr("t-1"),
     task_subject |-> JStr("subject"),
     task_description |-> JStr(""),
     soul_content |-> JStr("soul"),
     model_override |-> Undef,
     team_context |-> Undef,
     methodology_context |-> Undef,
     agent_memory |-> Undef,
     project_memory |-> Undef,
     project_communications |-> Undef,
     project_document_index |-> Undef,
     api_credentials |-> JNotObject("undefined"),
     max_iterations |-> mi]

\* max_iterations as sent: missing, not a number, -1, 0, 0.5, 1, 2.5, 3, 7
RawIterations ==
    {Undef, JStr("3")}
    \cup {JHalves(h) : h \in {-2, 0, 1, 2, 5, 6, 14}}

\* api_credentials as sent, beside undefined: a string, null, an unknown
\* provider, a provider that is no string, an api_key that is missing, no
\* string or empty, and two well-formed objects
RawCredentials ==
    {JNotObject("string"), JNotObject("null"),
     JCreds(JStr("bogus"), JStr("k"), Undef),
     JCreds(JNum(1), JStr("k"), Undef),
     JCreds(JStr("xai"), Undef, Undef),
     JCreds(JStr("xai"), JNum(1), Undef),
     JCreds(JStr("xai"), JStr(""), Undef),
     JCreds(JStr("xai"), JStr("k"), Undef),
     JCreds(JStr("anthropic"), JStr("k"), JStr("https://proxy.example/v2"))}

\* bodies that are no object, and objects with one required property
\* missing, of another type, or empty
BadBodies ==
    {[GoodBody(JNum(3)) EXCEPT !.kind = k] : k \in {"null", "string", "undefined"}}
    \cup {[GoodBody(JNum(3)) EXCEPT ![f] = v] :
             f \in {"agent_id", "task_id", "task_subject", "soul_content"},
             v \in {Undef, JNum(1), JStr("")}}
    \cup {[GoodBody(JNum(3)) EXCEPT !.task_description = v] :
             v \in {Undef, JNum(1)}}

Bodies ==
    {GoodBody(mi) : mi \in RawIterations}
    \cup {[GoodBody(JNum(2)) EXCEPT !.api_credentials = c] : c \in RawCredentials}
    \cup {[GoodBody(Undef) EXCEPT !.task_description = JStr("details")]}
    \cup BadBodies

---------------------------------------------------------------------------
(* The handler *)

\* logs.stdout || ''
OrEmpty(t) == IF t.defined THEN t.text ELSE EmptyStr

\* a plausible slip: a process without an exit code counts as a clean exit
OrOne_zero(c) == IF c.isNull THEN 0 ELSE c.code

\* proc.exitCode ?? 1
OrOne(c) == IF c.isNull THEN 1 ELSE c.code

IdleCall == callPc = "idle" /\ callArgs = <<>> /\ callRet = <<>>

Init ==
    /\ pc = "route"
    /\ now \in StartTimes
    /\ body \in Bodies
    /\ request = NoRequest
    /\ startTime = 0
    /\ turn = 0
    /\ elapsed = 0
    /\ turnStart = 0
    /\ turnTimeout = 0
    /\ prompt = NoPrompt
    /\ turnOutputs = <<>>
    /\ finalOutput = EmptyStr
    /\ finalSuccess = FALSE
    /\ lastStderr = EmptyStr
    /\ stderr = EmptyStr
    /\ exitCode = 0
    /\ ensureCalls = 0
    /\ procsStarted = 0
    /\ procsRunning = 0
    /\ execEnv = NoEnv
    /\ startOptions = StartOptionsOf(NoEnv)
    /\ procExitCode = NullCode
    /\ response = NoResponse
    /\ IdleCall

loopLocals == <<turn, elapsed, turnStart, turnTimeout, prompt, turnOutputs,
                finalOutput, finalSuccess, lastStderr, stderr, exitCode>>

\* the catch block of executeMissionTask, entered at time t
Catch(thrown, t) ==
    /\ pc' = "done"
    /\ response' = CatchResult(thrown, t)

\* missionApi.post('/execute'): validation, then the first lines of
\* executeMissionTask up to the call of ensureMoltbotGateway
RouteExecute ==
    /\ pc = "route"
    /\ LET validation == validateMissionRequest(body)
       IN  IF ~ validation.valid
           THEN /\ pc' = "done"
                /\ response' = ValidationResponse(validation.error)
                /\ UNCHANGED <<request, startTime>>
           ELSE /\ pc' = "ensure"
                /\ request' = validation.request
                /\ startTime' = now
                /\ UNCHANGED response
    /\ UNCHANGED <<now, body, loopLocals, ensureCalls, procsStarted>>
    /\ UNCHANGED procsRunning
    /\ UNCHANGED <<execEnv, startOptions, procExitCode>>
    /\ UNCHANGED callVars

\* a plausible slip: the clock is started when the gateway is ready
EnsureGatewayOk_restartClock ==
    /\ pc = "ensure"
    /\ \E d \in ReadyDelays : now' = now + d
    /\ startTime' = now'
    /\ ensureCalls' = ensureCalls + 1
    /\ pc' = "turn_begin"
    /\ turn' = 1
    /\ turnOutputs' = <<>>
    /\ finalOutput' = EmptyStr
    /\ finalSuccess' = FALSE
    /\ lastStderr' = EmptyStr
    /\ execEnv' = ExecEnvOf(request)
    /\ UNCHANGED <<body, request, elapsed, turnStart, turnTimeout,
                   prompt, stderr, exitCode, procsStarted, response>>
    /\ UNCHANGED procsRunning
    /\ UNCHANGED <<startOptions, procExitCode>>
    /\ UNCHANGED callVars

\* await ensureMoltbotGateway(sandbox, env) returns; the locals of the loop
\* are set up
EnsureGatewayOk ==
    /\ pc = "ensure"
    /\ \E d \in ReadyDelays : now' = now + d
    /\ ensureCalls' = ensureCalls + 1
    /\ pc' = "turn_begin"
    /\ turn' = 1
    /\ turnOutputs' = <<>>
    /\ finalOutput' = EmptyStr
    /\ finalSuccess' = FALSE
    /\ lastStderr' = EmptyStr
    /\ execEnv' = ExecEnvOf(request)
    /\ UNCHANGED <<body, request, startTime, elapsed, turnStart, turnTimeout,
                   prompt, stderr, exitCode, procsStarted, response>>
    /\ UNCHANGED procsRunning
    /\ UNCHANGED <<startOptions, procExitCode>>
    /\ UNCHANGED callVars

\* await ensureMoltbotGateway(sandbox, env) throws
EnsureGatewayThrows ==
    /\ pc = "ensure"
    /\ \E d \in ReadyDelays, thrown \in Throwables :
          /\ now' = now + d
          /\ Catch(thrown, now + d)
    /\ ensureCalls' = ensureCalls + 1
    /\ UNCHANGED <<body, request, startTime, loopLocals, procsStarted>>
    /\ UNCHANGED procsRunning
    /\ UNCHANGED <<execEnv, startOptions, procExitCode>>
    /\ UNCHANGED callVars

\* the top of the for loop: the loop test, the budget check, the prompt
TurnBegin ==
    /\ pc = "turn_begin"
    /\ LET el == now - startTime
           alloc == TurnTimeout(isMultiTurn, el)
       IN  IF turn <= maxIterations /\ alloc.start
           THEN /\ pc' = "start"
                /\ turnStart' = now
                /\ elapsed' = el
                /\ turnTimeout' = alloc.timeout
                /\ prompt' = BuildPrompt(turn, finalOutput, maxIterations)
                /\ UNCHANGED response
           ELSE /\ pc' = "done"
                /\ response' = LoopResult(finalSuccess, finalOutput,
                                          turnOutputs, lastStderr,
                                          isMultiTurn, now)
                /\ UNCHANGED <<turnStart, elapsed, turnTimeout, prompt>>
    /\ UNCHANGED <<now, body, request, startTime, turn, turnOutputs,
                   finalOutput, finalSuccess, lastStderr, stderr, exitCode,
                   ensureCalls, procsStarted>>
    /\ UNCHANGED procsRunning
    /\ UNCHANGED <<execEnv, startOptions, procExitCode>>
    /\ UNCHANGED callVars

\* a plausible slip: the wait is not awaited, the logs are read at once
StartProcessOk_noWait ==
    /\ pc = "start"
    /\ pc' = "logs"
    /\ procsStarted' = procsStarted + 1
    /\ procsRunning' = procsRunning + 1
    /\ startOptions' = StartOptionsOf(execEnv)
    /\ procExitCode' = NullCode
    /\ UNCHANGED execEnv
    /\ UNCHANGED <<now, body, request, startTime, loopLocals, ensureCalls,
                   response>>
    /\ UNCHANGED callVars

\* a plausible slip: readiness is established again before every turn
StartProcessOk_ensureAgain ==
    /\ pc = "start"
    /\ pc' = "wait"
    /\ procsStarted' = procsStarted + 1
    /\ procsRunning' = procsRunning + 1
    /\ startOptions' = StartOptionsOf(execEnv)
    /\ procExitCode' = NullCode
    /\ UNCHANGED execEnv
    /\ ensureCalls' = ensureCalls + 1
    /\ UNCHANGED <<now, body, request, startTime, loopLocals, response>>
    /\ UNCHANGED callVars

\* await sandbox.startProcess(command ...) returns a process
StartProcessOk ==
    /\ pc = "start"
    /\ pc' = "wait"
    /\ procsStarted' = procsStarted + 1
    /\ procsRunning' = procsRunning + 1
    /\ startOptions' = StartOptionsOf(execEnv)
    /\ procExitCode' = NullCode
    /\ UNCHANGED execEnv
    /\ UNCHANGED <<now, body, request, startTime, loopLocals, ensureCalls,
                   response>>
    /\ UNCHANGED callVars

\* await sandbox.startProcess(command ...) throws
StartProcessThrows ==
    /\ pc = "start"
    /\ \E thrown \in Throwables : Catch(thrown, now)
    /\ UNCHANGED <<now, body, request, startTime, loopLocals, ensureCalls,
                   procsStarted>>
    /\ UNCHANGED procsRunning
    /\ UNCHANGED <<execEnv, startOptions, procExitCode>>
    /\ UNCHANGED callVars

\* waitForProcess returns when the process has exited, or at the deadline,
\* when the runner has killed it: the process waited for runs no longer
RunningAfterWait(r) == r - 1

\* await waitForProcess(proc, turnTimeout) returns; the process has an exit
\* code by then, or none if it was killed at the deadline
WaitForProcessOk ==
    /\ pc = "wait"
    /\ \E d \in WaitDelays : now' = now + d
    /\ pc' = "logs"
    /\ procsRunning' = RunningAfterWait(procsRunning)
    /\ \E procCode \in ExitCodes : procExitCode' = procCode
    /\ UNCHANGED <<execEnv, startOptions>>
    /\ UNCHANGED <<body, request, startTime, loopLocals, ensureCalls,
                   procsStarted, response>>
    /\ UNCHANGED callVars

\* await waitForProcess(proc, turnTimeout) throws
WaitForProcessThrows ==
    /\ pc = "wait"
    /\ \E d \in WaitDelays, thrown \in Throwables :
          /\ now' = now + d
          /\ Catch(thrown, now + d)
    /\ UNCHANGED <<body, request, startTime, loopLocals, ensureCalls,
                   procsStarted>>
    /\ UNCHANGED procsRunning
    /\ UNCHANGED <<execEnv, startOptions, procExitCode>>
    /\ UNCHANGED callVars

\* await proc.getLogs() throws
GetLogsThrows ==
    /\ pc = "logs"
    /\ \E thrown \in Throwables : Catch(thrown, now)
    /\ UNCHANGED <<now, body, request, startTime, loopLocals, ensureCalls,
                   procsStarted>>
    /\ UNCHANGED procsRunning
    /\ UNCHANGED <<execEnv, startOptions, procExitCode>>
    /\ UNCHANGED callVars

\* a plausible slip: the loop variable is not advanced
NextTurn_same(t) == t

\* turn++
NextTurn(t) == t + 1

\* await proc.getLogs() returns: the turn is recorded and the loop either
\* goes on to the next turn or ends, and then the result is returned
TurnEnd ==
    /\ pc = "logs"
    /\ \E logOut \in LogTexts(Stdouts), logErr \in LogTexts(Stderrs) :
          LET out == OrEmpty(logOut)
              err == OrEmpty(logErr)
              code == OrOne(procExitCode)
              turnDuration == now - turnStart
              newLastStderr == IF Truthy(err) THEN err ELSE lastStderr
              completed == checkCompletion(out, code)
              newOutputs == Append(turnOutputs,
                                   TurnOutput(turn, out, turnDuration, completed))
              decision == LoopDecision(code, completed, turn, maxIterations)
              success == SuccessOf(decision, code)
          IN  /\ stderr' = err
              /\ exitCode' = code
              /\ lastStderr' = newLastStderr
              /\ turnOutputs' = newOutputs
              /\ finalOutput' = out
              /\ IF decision = "continue"
                 THEN /\ turn' = NextTurn(turn)
                      /\ pc' = "turn_begin"
                      /\ UNCHANGED <<finalSuccess, response>>
                 ELSE /\ finalSuccess' = success
                      /\ pc' = "done"
                      /\ response' = LoopResult(success, out, newOutputs,
                                                newLastStderr, isMultiTurn, now)
                      /\ UNCHANGED turn
    /\ UNCHANGED <<now, body, request, startTime, elapsed, turnStart,
                   turnTimeout, prompt, ensureCalls, procsStarted>>
    /\ UNCHANGED procsRunning
    /\ UNCHANGED <<execEnv, startOptions, procExitCode>>
    /\ UNCHANGED callVars

Next ==
    \/ RouteExecute
    \/ EnsureGatewayOk
    \/ EnsureGatewayThrows
    \/ TurnBegin
    \/ StartProcessOk
    \/ StartProcessThrows
    \/ WaitForProcessOk
    \/ WaitForProcessThrows
    \/ GetLogsThrows
    \/ TurnEnd

Spec == Init /\ [][Next]_vars

\* every await of the handler settles: a collaborator call returns or throws,
\* and the synchronous code between two awaits runs to the next await
SpecFair == Init /\ [][Next]_vars /\ WF_vars(Next)

---------------------------------------------------------------------------
(* The harness of checkCompletion: the function applied to every output of  *)
(* at most MaxPieces pieces and every exit code of CCCodes.                 *)

CCPieces ==
    {Piece(DONE_MARKER, 1), Piece(REFINE_MARKER, 1),
     Piece("[task_complete]", 1),
     Piece("Error:", 1), Piece("FAILED", 1), Piece("todo:", 1),
     Piece("fixme", 1), Piece("not implemented", 1), Piece("incomplete", 1),
     Piece("Missing", 1), Piece("broken", 1), Piece("error", 1),
     Piece("x", 1), Piece("x", 99), Piece("x", 100), Piece("x", 101)}

CCOutputs == UNION {[1..k -> CCPieces] : k \in 0..MaxPieces}

CCCodes == {0, 1, 137}

InitCC ==
    /\ pc = "done"
    /\ now = 0
    /\ body = GoodBody(Undef)
    /\ request = NoRequest
    /\ startTime = 0
    /\ turn = 0
    /\ elapsed = 0
    /\ turnStart = 0
    /\ turnTimeout = 0
    /\ prompt = NoPrompt
    /\ turnOutputs = <<>>
    /\ finalOutput = EmptyStr
    /\ finalSuccess = FALSE
    /\ lastStderr = EmptyStr
    /\ stderr = EmptyStr
    /\ exitCode = 0
    /\ ensureCalls = 0
    /\ procsStarted = 0
    /\ procsRunning = 0
    /\ execEnv = NoEnv
    /\ startOptions = StartOptionsOf(NoEnv)
    /\ procExitCode = NullCode
    /\ response = NoResponse
    /\ callPc = "call"
    /\ callArgs \in [output : CCOutputs, code : CCCodes]
    /\ callRet = <<>>

CallCheckCompletion ==
    /\ callPc = "call"
    /\ callPc' = "returned"
    /\ callRet' = <<checkCompletion(callArgs.output, callArgs.code)>>
    /\ UNCHANGED callArgs
    /\ UNCHANGED progVars

NextCC == CallCheckCompletion

SpecCC == InitCC /\ [][NextCC]_vars

---------------------------------------------------------------------------
(* The harness of the other pure functions: buildCredentialEnvVars applied  *)
(* to every validated ApiCredentials of PureCredentials, and                *)
(* buildFollowUpTurnPrompt and the command line applied to every text of at *)
(* most MaxPieces pieces.                                                   *)

\* validated credentials: every provider, with the base URL missing, empty,
\* a proxy, or a gateway
PureCredentials ==
    {[defined |-> TRUE, provider |-> p, api_key |-> "k", base_url |-> u] :
        p \in validProviders,
        u \in {Undef, JStr(""), JStr("https://proxy.example/v2"),
               JStr(GATEWAY_URL)}}

\* pieces of a previous output: runs of lengths around maxPreviousLength
FUPieces ==
    {Piece("x", 1), Piece("x", 7999), Piece("x", 8000), Piece("y", 1),
     Piece("y", 8000), Piece("y", 8001), Piece("z", 16000)}

\* pieces of a prompt: quotes, a backslash, and characters the shell treats
\* specially outside quotes
CmdPieces ==
    {Piece(QUOTE, 1), Piece(QUOTE, 2), Piece(BACKSLASH, 1), Piece(" ", 1),
     Piece("$", 1), Piece("\"", 1), Piece("\n", 1), Piece("a", 1)}

TextsOf(pieces) == UNION {[1..k -> pieces] : k \in 0..MaxPieces}

\* request.model_override: undefined, empty, the name of a model, or any
\* other string, here one with a single quote and a blank
ModelOverrides ==
    {NoText, Text(EmptyStr), Text(Word("xai/grok-4-1")),
     Text(<<Piece("m", 1), Piece(QUOTE, 1), Piece(" ", 1), Piece("x", 1)>>)}

\* the optional context of a request as sent: none, all of it, a team
\* context that is empty, a team context that is no string
OptionalContexts ==
    {[team_context |-> Undef, agent_memory |-> Undef],
     [team_context |-> JStr("TEAM.md"), agent_memory |-> JStr("learnings")],
     [team_context |-> JStr(""), agent_memory |-> Undef],
     [team_context |-> JNum(1), agent_memory |-> JStr("learnings")]}

\* bodies of requests whose first-turn prompt is built: subjects with and
\* without the kickoff prefix and the planning keywords, in either case of
\* letters, for jarvis and for another agent, in single-shot and in
\* multi-turn mode
FirstTurnBodies ==
    {[GoodBody(mi) EXCEPT !.agent_id = JStr(a), !.task_subject = JStr(subj),
                          !.task_description = JStr(d),
                          !.team_context = o.team_context,
                          !.agent_memory = o.agent_memory,
                          !.project_memory = o.agent_memory,
                          !.project_communications = o.team_context,
                          !.project_document_index = o.agent_memory,
                          !.methodology_context = o.team_context] :
        mi \in {Undef, JNum(1), JNum(3)},
        a \in {"jarvis", "backend"},
        subj \in {"subject", "[KICKOFF] Sprint 1", "Notes on [KICKOFF]",
                  "Break Down the epic", "Write the Action Block guide"},
        d \in {"", "details", "Please plan tasks for the team"},
        o \in OptionalContexts}

\* the request of the calls that are handed none
DefaultRequest == validateMissionRequest(GoodBody(JNum(3))).request

PureArgs(fn, credentials, text, model_override, isFinalTurn, req) ==
    [fn |-> fn, credentials |-> credentials, text |-> text,
     model_override |-> model_override, turn |-> 2,
     isFinalTurn |-> isFinalTurn, req |-> req]

PureCalls ==
    {PureArgs("buildCredentialEnvVars", c, EmptyStr, NoText, FALSE,
              DefaultRequest) :
        c \in PureCredentials}
    \cup {PureArgs("buildFollowUpTurnPrompt", NoCredentials, t, NoText, f,
                   DefaultRequest) :
            t \in TextsOf(FUPieces), f \in BOOLEAN}
    \cup {PureArgs("Command", NoCredentials, t, m, FALSE, DefaultRequest) :
            t \in TextsOf(CmdPieces), m \in ModelOverrides}
    \cup {PureArgs("buildFirstTurnPrompt", NoCredentials, EmptyStr, NoText,
                   FALSE, validateMissionRequest(b).request) :
            b \in FirstTurnBodies}

InitPure ==
    /\ pc = "done"
    /\ now = 0
    /\ body = GoodBody(Undef)
    /\ request = DefaultRequest
    /\ startTime = 0
    /\ turn = 0
    /\ elapsed = 0
    /\ turnStart = 0
    /\ turnTimeout = 0
    /\ prompt = NoPrompt
    /\ turnOutputs = <<>>
    /\ finalOutput = EmptyStr
    /\ finalSuccess = FALSE
    /\ lastStderr = EmptyStr
    /\ stderr = EmptyStr
    /\ exitCode = 0
    /\ ensureCalls = 0
    /\ procsStarted = 0
    /\ procsRunning = 0
    /\ execEnv = NoEnv
    /\ startOptions = StartOptionsOf(NoEnv)
    /\ procExitCode = NullCode
    /\ response = NoResponse
    /\ callPc = "call"
    /\ callArgs \in PureCalls
    /\ callRet = <<>>

CallBuildCredentialEnvVars ==
    /\ callPc = "call"
    /\ callArgs.fn = "buildCredentialEnvVars"
    /\ callPc' = "returned"
    /\ callRet' = <<buildCredentialEnvVars(callArgs.credentials)>>
    /\ UNCHANGED callArgs
    /\ UNCHANGED progVars

CallBuildFollowUpTurnPrompt ==
    /\ callPc = "call"
    /\ callArgs.fn = "buildFollowUpTurnPrompt"
    /\ callPc' = "returned"
    /\ callRet' = <<buildFollowUpTurnPrompt(request, callArgs.turn,
                                            callArgs.text,
                                            callArgs.isFinalTurn)>>
    /\ UNCHANGED callArgs
    /\ UNCHANGED progVars

CallCommand ==
    /\ callPc = "call"
    /\ callArgs.fn = "Command"
    /\ callPc' = "returned"
    /\ callRet' = <<Command(callArgs.model_override, callArgs.text)>>
    /\ UNCHANGED callArgs
    /\ UNCHANGED progVars

\* const isMultiTurn = maxIterations > 1 and, on turn 1,
\* buildFirstTurnPrompt(request, isMultiTurn)
CallBuildFirstTurnPrompt ==
    /\ callPc = "call"
    /\ callArgs.fn = "buildFirstTurnPrompt"
    /\ callPc' = "returned"
    /\ callRet' = <<buildFirstTurnPrompt(callArgs.req,
                                         MaxIterationsOf(callArgs.req) > 1)>>
    /\ UNCHANGED callArgs
    /\ UNCHANGED progVars

NextPure ==
    \/ CallBuildCredentialEnvVars
    \/ CallBuildFollowUpTurnPrompt
    \/ CallCommand
    \/ CallBuildFirstTurnPrompt

SpecPure == InitPure /\ [][NextPure]_vars

---------------------------------------------------------------------------
(* Claims *)

loopReturned == pc = "done" /\ "output" \in response.present

\* C1: the number of turns executed (turns_used, the length of the
\* turn-record sequence) never exceeds the effective max_iterations, and
\* for a validated request never exceeds 5.
C1_TurnsBounded ==
    /\ Len(turnOutputs) <= maxIterations
    /\ Len(turnOutputs) <= 5
    /\ procsStarted <= 5
    /\ loopReturned =>
          /\ response.turns_used = Len(turnOutputs)
          /\ response.turns_used <= maxIterations

\* C1 witness: a request sent with max_iterations 7 has run five turns
C1_Witness ==
    /\ loopReturned
    /\ body.max_iterations = JNum(7)
    /\ response.turns_used = 5

\* C2 as stated: in multi-turn mode no turn is started once the elapsed
\* time measured at the top of the turn is 210000 ms or more.
C2_Original ==
    (isMultiTurn /\ pc = "start") => elapsed < 270000 - 60000

\* C2, amended: in multi-turn mode, once the elapsed time measured at the
\* top of a turn is strictly greater than 210000 ms, no further turn is
\* started and the loop ends: no process is started, no record is added and
\* the result is returned.
C2_BudgetStopsLoop ==
    [][(pc = "turn_begin" /\ isMultiTurn /\ now - startTime > 270000 - 60000)
         => /\ pc' = "done"
            /\ procsStarted' = procsStarted
            /\ turnOutputs' = turnOutputs
            /\ "output" \in response'.present
            /\ response'.turns_used = Len(turnOutputs)]_vars

\* C2 witness: max_iterations 5, two turns of 120000 ms each, and the loop
\* has ended before turn 3 although turn 2 was not completed
C2_Witness ==
    /\ loopReturned
    /\ maxIterations = 5
    /\ Len(turnOutputs) = 2
    /\ ~ turnOutputs[2].completed
    /\ response.duration_ms = 240000
    /\ procsStarted = 2

\* C3: in multi-turn mode, with remaining = 270000 - elapsed, a turn is not
\* started when remaining < 60000 and is otherwise started with the timeout
\* min(remaining, 180000).
C3_Allocation ==
    [][(pc = "turn_begin" /\ isMultiTurn /\ turn <= maxIterations)
         => LET remaining == 270000 - (now - startTime)
            IN  IF remaining < 60000
                THEN pc' = "done" /\ procsStarted' = procsStarted
                ELSE /\ pc' = "start"
                     /\ turnTimeout' = Min(remaining, 180000)
                     /\ elapsed' = now - startTime]_vars

\* C3 witness: a later turn that starts 120000 ms into the invocation gets
\* the remaining 150000 ms, below the cap
C3_Witness ==
    /\ pc = "start"
    /\ isMultiTurn
    /\ turn = 2
    /\ elapsed = 120000
    /\ turnTimeout = 150000

\* C4: in single-shot mode the turn is always granted the timeout of
\* 300000 ms, whatever time has elapsed; the budget check never keeps the
\* single turn from starting.
C4_SingleShot ==
    [][(pc = "turn_begin" /\ ~ isMultiTurn)
         => /\ pc' = "start"
            /\ turnTimeout' = 300000
            /\ turn' = 1]_vars

\* C4 witness: the single turn starts after a readiness check of 210001 ms
C4_Witness ==
    /\ pc = "start"
    /\ ~ isMultiTurn
    /\ elapsed = 210001
    /\ turnTimeout = 300000

returned == callPc = "returned"

\* C5: checkCompletion returns true for every output that contains the
\* done marker, whatever the exit code and whatever else the output holds.
C5_MarkerWins ==
    (returned /\ Includes(callArgs.output, "[TASK_COMPLETE]"))
        => callRet = <<TRUE>>

\* C5 witness: done marker beside the refinement marker, exit code 1
C5_Witness ==
    /\ returned
    /\ callArgs.code # 0
    /\ Includes(callArgs.output, "[TASK_COMPLETE]")
    /\ Includes(callArgs.output, "[NEEDS_REFINEMENT]")
    /\ callRet = <<TRUE>>

\* C6: without the done marker checkCompletion returns false when the exit
\* code is non-zero, and when the exit code is zero and the output holds
\* the refinement marker, however long and clean the output is.
C6_FailureAndRefinement ==
    (returned /\ ~ Includes(callArgs.output, "[TASK_COMPLETE]")
       /\ (callArgs.code # 0 \/ Includes(callArgs.output, "[NEEDS_REFINEMENT]")))
        => callRet = <<FALSE>>

\* C6 witness: exit code 0, more than 100 characters, no failure
\* indicator, and the refinement marker
C6_Witness ==
    /\ returned
    /\ callArgs.code = 0
    /\ callArgs.output = <<Piece("x", 101), Piece("[NEEDS_REFINEMENT]", 1)>>
    /\ callRet = <<FALSE>>

HasIndicator(s) ==
    \E ind \in {"error:", "failed", "todo:", "fixme", "not implemented",
                "incomplete", "missing", "broken"} :
        Includes(ToLowerCase(s), ind)

\* C7: with exit code 0 and neither marker, checkCompletion returns true
\* exactly when the output is longer than 100 characters and its
\* lower-cased form holds none of the eight failure indicators.
C7_Heuristic ==
    (returned /\ callArgs.code = 0
       /\ ~ Includes(callArgs.output, "[TASK_COMPLETE]")
       /\ ~ Includes(callArgs.output, "[NEEDS_REFINEMENT]"))
        => (callRet = <<TRUE>>
              <=> (StrLen(callArgs.output) > 100 /\ ~ HasIndicator(callArgs.output)))

\* C7 witness: exactly 100 clean characters are not completed
C7_Witness ==
    /\ returned
    /\ callArgs.code = 0
    /\ callArgs.output = <<Piece("x", 99), Piece("x", 1)>>
    /\ StrLen(callArgs.output) = 100
    /\ callRet = <<FALSE>>

\* C8: the loop stops with success=true at the first turn n whose record is
\* completed, unless n is the final turn and its exit code is non-zero: no
\* turn is started after n, turns_used = n and output is the stdout of
\* turn n.
C8_StopsOnCompleted ==
    \A n \in 1..Len(turnOutputs) :
        turnOutputs[n].completed =>
            /\ n = Len(turnOutputs)
            /\ pc = "done"
            /\ procsStarted = n
            /\ ~ (n = maxIterations /\ exitCode # 0) =>
                  /\ response.success
                  /\ response.turns_used = n
                  /\ response.output = turnOutputs[n].output

\* C8 witness: max_iterations 3, turn 1 short and unmarked, turn 2 with the
\* done marker: success with turns_used = 2
C8_Witness ==
    /\ pc = "done"
    /\ maxIterations = 3
    /\ Len(turnOutputs) = 2
    /\ StrLen(turnOutputs[1].output) <= 100
    /\ ~ turnOutputs[1].completed
    /\ Includes(turnOutputs[2].output, "[TASK_COMPLETE]")
    /\ response.success
    /\ response.turns_used = 2

finalTurnFailed ==
    pc = "done" /\ Len(turnOutputs) = maxIterations /\ exitCode # 0

\* C9: if the turn with index max_iterations ends with a non-zero exit
\* code the result has success=false, also when that turn's stdout holds
\* the done marker and its record has completed=true.
C9_FinalTurnFailure ==
    finalTurnFailed =>
        /\ loopReturned
        /\ response.success = FALSE
        /\ "error" \in response.present

\* C9 witness: the final turn's record is completed and the result is not
\* successful
C9_Witness ==
    /\ finalTurnFailed
    /\ maxIterations = 3
    /\ turnOutputs[3].completed
    /\ Includes(turnOutputs[3].output, "[TASK_COMPLETE]")
    /\ response.success = FALSE

\* C10 as stated: when the final turn exits with a non-zero code, the
\* error of the result is that turn's stderr cut to its first 500
\* characters.
C10_Original ==
    finalTurnFailed => response.error = Take(stderr, 500)

\* C10, amended: when the final turn exits with a non-zero code and has
\* written to stderr, the error of the result is that turn's stderr cut to
\* its first 500 characters.
C10_FinalStderr ==
    (finalTurnFailed /\ StrLen(stderr) > 0) =>
        /\ "error" \in response.present
        /\ response.error = Take(stderr, 500)
        /\ StrLen(response.error) = Min(StrLen(stderr), 500)

\* C10 witness: a stderr of 501 characters is reported as its first 500
C10_Witness ==
    /\ finalTurnFailed
    /\ stderr = Run("e", 501)
    /\ response.error = Run("e", 500)

lastRecord == turnOutputs[Len(turnOutputs)]

\* C11: when the turn with index max_iterations has run, exited with code 0
\* and is not completed, the result has success = true, that turn's stdout
\* as output and no error.
C11_BestEffort ==
    (pc = "done" /\ Len(turnOutputs) = maxIterations /\ exitCode = 0
       /\ ~ lastRecord.completed)
        => /\ loopReturned
           /\ response.success
           /\ response.output = lastRecord.output
           /\ "error" \notin response.present

\* C11 witness: the third of three turns ends with exit code 0 and asks
\* for refinement
C11_Witness ==
    /\ pc = "done"
    /\ maxIterations = 3
    /\ Len(turnOutputs) = 3
    /\ exitCode = 0
    /\ Includes(lastRecord.output, "[NEEDS_REFINEMENT]")
    /\ ~ lastRecord.completed
    /\ response.success

\* C12: when the loop stops because the budget allows no further turn, the
\* result has the stdout of the last turn executed as output, and success
\* is true exactly when that turn's exit code was 0.
C12_BudgetExhaustion ==
    [][(pc = "turn_begin" /\ pc' = "done" /\ Len(turnOutputs) > 0)
         => /\ response'.output = lastRecord.output
            /\ response'.success <=> (exitCode = 0)]_vars

\* C13: in every result the error is present exactly when success is
\* false.
C13_ErrorIffFailure ==
    pc = "done" => ("error" \in response.present <=> ~ response.success)

\* C13 witness: a successful result of the loop, without an error
C13_Witness ==
    /\ loopReturned
    /\ response.success
    /\ "error" \notin response.present
    /\ Len(turnOutputs) = 2

\* C14: the turn records are only ever appended to, record i carries the
\* turn index i, and the output of a result returned after the loop is the
\* stdout of the record appended last.
C14_AppendOnly ==
    /\ [](/\ \A i \in 1..Len(turnOutputs) : turnOutputs[i].turn = i
          /\ (loopReturned /\ Len(turnOutputs) > 0)
                => response.output = lastRecord.output)
    /\ [][/\ Len(turnOutputs') >= Len(turnOutputs)
          /\ Len(turnOutputs') <= Len(turnOutputs) + 1
          /\ SubSeq(turnOutputs', 1, Len(turnOutputs)) = turnOutputs]_vars

\* C14 witness: three records, the outputs of the first two differ from the
\* third, which is the output of the result
C14_Witness ==
    /\ loopReturned
    /\ Len(turnOutputs) = 3
    /\ turnOutputs[1].turn = 1 /\ turnOutputs[2].turn = 2
    /\ turnOutputs[3].turn = 3
    /\ turnOutputs[2].output # turnOutputs[3].output
    /\ response.output = turnOutputs[3].output

turnRunning == pc \in {"start", "wait", "logs"}

\* C15: turn 1 uses the first-turn prompt, and the follow-up prompt of
\* every later turn n+1 is built from the stdout of turn n.
C15_PromptChain ==
    turnRunning =>
        /\ prompt.turn = turn
        /\ turn = 1 => prompt.builder = "buildFirstTurnPrompt"
        /\ turn > 1 =>
              /\ prompt.builder = "buildFollowUpTurnPrompt"
              /\ prompt.previousOutput = turnOutputs[turn - 1].output

\* C15 witness: turn 3 is built from the stdout of turn 2, which is neither
\* the stdout of turn 1 nor the stderr of turn 2
C15_Witness ==
    /\ pc = "start"
    /\ turn = 3
    /\ prompt.previousOutput = turnOutputs[2].output
    /\ turnOutputs[2].output # turnOutputs[1].output
    /\ turnOutputs[2].output # stderr
    /\ StrLen(stderr) > 0

\* C16: the turns of an invocation are sequential: when the process of a
\* turn is about to be started no earlier process is running, so at most
\* one worker process runs at any time.
C16_Sequential ==
    /\ procsRunning <= 1
    /\ pc = "start" => procsRunning = 0

\* C16 witness: turn 2 is about to start its process after the process of
\* turn 1 has gone
C16_Witness ==
    /\ pc = "start"
    /\ turn = 2
    /\ procsStarted = 1
    /\ procsRunning = 0

\* C17: ensureMoltbotGateway is called exactly once per invocation, before
\* the first process is started, and never between turns.
C17_ReadinessOnce ==
    /\ ensureCalls <= 1
    /\ pc \in {"turn_begin", "start", "wait", "logs"} => ensureCalls = 1
    /\ procsStarted > 0 => ensureCalls = 1
    /\ (pc = "done" /\ response.status = 200) => ensureCalls = 1

\* C17 witness: three turns have run and readiness was established once
C17_Witness ==
    /\ pc = "done"
    /\ Len(turnOutputs) = 3
    /\ procsStarted = 3
    /\ ensureCalls = 1

\* the catch block was entered from the call of ensureMoltbotGateway: the
\* locals of the loop were never set up
readinessFailed == pc = "done" /\ response.status = 200 /\ turn = 0

\* C18: if the readiness check fails no process is started, no turn is
\* recorded, and the result has success=false and the error of the
\* failure: the message of the Error thrown, or 'Unknown error'.
C18_ReadinessFailure ==
    readinessFailed =>
        /\ procsStarted = 0
        /\ procsRunning = 0
        /\ turnOutputs = <<>>
        /\ response.success = FALSE
        /\ "error" \in response.present
        /\ response.turns_used = 0
        /\ \E thrown \in Throwables :
              response.error = IF thrown.isError THEN thrown.message
                               ELSE Word("Unknown error")

\* C18 witness: the readiness check threw an Error and the result carries
\* its message
C18_Witness ==
    /\ readinessFailed
    /\ response.error = Word("gateway failed to start")
    /\ procsStarted = 0

\* the catch block has built the result
caught == pc = "done" /\ response.status = 200 /\ ~ loopReturned

\* C19: whenever the readiness check, the start of a process, the wait or
\* the retrieval of the logs throws, the caller receives a result with
\* success=false and a non-empty error.
C19_NoEscape ==
    caught =>
        /\ response.success = FALSE
        /\ "error" \in response.present
        /\ StrLen(response.error) > 0

\* C20: when the process of a turn n < max_iterations fails to start, a
\* failed record is appended for the turn, the earlier records are kept and
\* the loop goes on to turn n+1.
C20_StartFailureAbsorbed ==
    [][(pc = "start" /\ turn < maxIterations /\ pc' # "wait")
         => /\ pc' = "turn_begin"
            /\ turn' = turn + 1
            /\ Len(turnOutputs') = Len(turnOutputs) + 1
            /\ SubSeq(turnOutputs', 1, Len(turnOutputs)) = turnOutputs]_vars

\* executeMissionTask has returned a result that is not successful
unsuccessful == pc = "done" /\ response.status = 200 /\ ~ response.success

\* C21: every unsuccessful result, whether it comes from a final-turn
\* failure, from budget exhaustion or from a readiness failure, carries an
\* error of at most 500 characters.
C21_ErrorBounded ==
    unsuccessful =>
        /\ "error" \in response.present
        /\ StrLen(response.error) <= 500

\* C22: when the loop has ended with success=false and no turn has written
\* to stderr, the error is 'Task not completed after N turn(s)' with
\* N = turns_used if the last executed turn wrote a non-empty stdout, and
\* 'No output produced' if its stdout is empty or no turn was executed.
C22_Fallback ==
    (loopReturned /\ ~ response.success /\ StrLen(lastStderr) = 0) =>
        response.error =
            IF Len(turnOutputs) > 0 /\ StrLen(lastRecord.output) > 0
            THEN <<Piece("Task not completed after ", 1),
                   Piece(ToString(response.turns_used), 1),
                   Piece(" turn(s)", 1)>>
            ELSE <<Piece("No output produced", 1)>>

\* C22 witness: the second and final turn wrote nothing and failed after a
\* first turn that wrote to stdout; no turn wrote to stderr
C22_Witness ==
    /\ loopReturned
    /\ ~ response.success
    /\ StrLen(lastStderr) = 0
    /\ Len(turnOutputs) = 2
    /\ StrLen(turnOutputs[1].output) > 0
    /\ StrLen(turnOutputs[2].output) = 0
    /\ response.error = <<Piece("No output produced", 1)>>

\* C23: every result returned by executeMissionTask, also after a
\* collaborator has failed in the middle of the loop, carries success,
\* duration_ms, turns_used equal to the number of turns executed and output
\* equal to the stdout of the last turn executed.
C23_WellFormed ==
    (pc = "done" /\ response.status = 200) =>
        /\ {"success", "duration_ms", "turns_used", "output"}
              \subseteq response.present
        /\ response.turns_used = Len(turnOutputs)
        /\ Len(turnOutputs) > 0 => response.output = lastRecord.output

\* C24: turn_outputs is left out of the result whenever the effective
\* max_iterations is 1, and whenever the loop has ended normally with
\* max_iterations > 1 it is present and holds exactly the records of the
\* turns executed, turns_used of them.
C24_TurnOutputsField ==
    (pc = "done" /\ response.status = 200) =>
        /\ maxIterations = 1 => "turn_outputs" \notin response.present
        /\ (loopReturned /\ maxIterations > 1) =>
              /\ "turn_outputs" \in response.present
              /\ response.turn_outputs = turnOutputs
              /\ Len(response.turn_outputs) = response.turns_used

\* C24 witness: max_iterations 3, the loop stopped after two turns and the
\* result lists the two records
C24_Witness ==
    /\ loopReturned
    /\ maxIterations = 3
    /\ "turn_outputs" \in response.present
    /\ Len(response.turn_outputs) = 2
    /\ response.turn_outputs[2].turn = 2

\* the number of iterations the spec gives for a raw max_iterations value
\* (numbers are kept as twice their value)
ExpectedIterations(v) ==
    IF v.t # "number" THEN 1
    ELSE IF v.n < 2 THEN 1
    ELSE IF v.n >= 10 THEN 5
    ELSE v.n \div 2

accepted == pc # "route" /\ response.status # 400

\* C25: for every accepted request the number of iterations the loop uses
\* lies in 1..5: a numeric max_iterations is floored and clamped (0 and
\* negative values give 1, values above 5 give 5), a missing or non-numeric
\* one gives 1.
C25_IterationsClamped ==
    accepted =>
        /\ maxIterations \in 1..5
        /\ maxIterations = ExpectedIterations(body.max_iterations)
        /\ turn <= maxIterations
        /\ Len(turnOutputs) <= maxIterations

\* C25 witness: max_iterations 2.5 has run as two turns
C25_Witness ==
    /\ pc = "done"
    /\ body.max_iterations = JHalves(5)
    /\ maxIterations = 2
    /\ Len(turnOutputs) = 2

\* a body that fails validation, in the words of the spec
Malformed(b) ==
    \/ b.kind # "object"
    \/ \E f \in {"agent_id", "task_id", "task_subject", "soul_content"} :
          b[f].t # "string" \/ b[f].s = ""
    \/ b.task_description.t # "string"

\* api_credentials that are invalid, in the words of the spec
InvalidCredentials(c) ==
    \/ c.t # "object"
    \/ c.provider.t # "string"
    \/ c.provider.s \notin {"anthropic", "openai", "xai", "moonshot",
                           "cloudflare-ai-gateway", "openrouter", "minimax"}
    \/ c.api_key.t # "string"
    \/ c.api_key.s = ""

\* C26: invalid api_credentials never cause the request to be rejected: the
\* request validates, its credentials are absent, and every process is
\* started without an environment override.
C26_CredentialsDropped ==
    (InvalidCredentials(body.api_credentials) /\ ~ Malformed(body)
       /\ pc # "route") =>
        /\ response.status # 400
        /\ ~ request.api_credentials.defined
        /\ ~ execEnv.defined
        /\ ~ startOptions.given

\* C26 witness: credentials with an empty api_key, and two turns have run
C26_Witness ==
    /\ pc = "done"
    /\ body.api_credentials.provider = JStr("xai")
    /\ body.api_credentials.api_key = JStr("")
    /\ procsStarted = 2
    /\ Len(turnOutputs) = 2
    /\ ~ startOptions.given

\* C27: a request that fails validation is answered at once with an error;
\* the readiness check is not called and no process is started.  A request
\* whose required properties are well formed is not rejected, also when
\* its task_description is the empty string.
C27_ValidationError ==
    pc # "route" =>
        IF Malformed(body)
        THEN /\ pc = "done"
             /\ response.status = 400
             /\ response.success = FALSE
             /\ "error" \in response.present
             /\ StrLen(response.error) > 0
             /\ ensureCalls = 0
             /\ procsStarted = 0
             /\ turnOutputs = <<>>
        ELSE response.status # 400

\* C27 witness: a body with an empty soul_content has been rejected
C27_Witness ==
    /\ pc = "done"
    /\ body.soul_content = JStr("")
    /\ body.task_description = JStr("")
    /\ response.status = 400
    /\ ensureCalls = 0
    /\ procsStarted = 0

\* buildCredentialEnvVars has returned for one of the three providers that
\* share the OpenAI variables with a default base URL
sharedReturned ==
    /\ callPc = "returned"
    /\ callArgs.fn = "buildCredentialEnvVars"
    /\ callArgs.credentials.provider \in {"xai", "openrouter", "minimax"}

DefaultBaseUrl(provider) ==
    CASE provider = "xai" -> "https://api.x.ai/v1"
      [] provider = "openrouter" -> "https://openrouter.ai/api/v1"
      [] provider = "minimax" -> "https://api.minimaxi.chat/v1"

\* C28 as stated: for xai (and openrouter, minimax) the environment sets
\* the API key variable and the base URL variable; without a base URL the
\* base URL is the provider's default, and any base URL provided is used
\* verbatim.
C28_Original ==
    sharedReturned =>
        LET env == callRet[1]
            c == callArgs.credentials
        IN  /\ DOMAIN env = {"OPENAI_API_KEY", "OPENAI_BASE_URL"}
            /\ env["OPENAI_API_KEY"] = c.api_key
            /\ env["OPENAI_BASE_URL"] =
                  IF c.base_url.t = "string" THEN c.base_url.s
                  ELSE DefaultBaseUrl(c.provider)

\* C28, amended: for xai (and openrouter, minimax) the environment sets the
\* API key variable and the base URL variable; a base URL that is provided
\* and not empty is used verbatim, and without one, or with an empty one,
\* the base URL is the provider's default.
C28_DefaultOrOverride ==
    sharedReturned =>
        LET env == callRet[1]
            c == callArgs.credentials
        IN  /\ DOMAIN env = {"OPENAI_API_KEY", "OPENAI_BASE_URL"}
            /\ env["OPENAI_API_KEY"] = c.api_key
            /\ env["OPENAI_BASE_URL"] =
                  IF c.base_url.t = "string" /\ c.base_url.s # ""
                  THEN c.base_url.s
                  ELSE DefaultBaseUrl(c.provider)

\* C28 witness: xai with a proxy as base URL
C28_Witness ==
    /\ sharedReturned
    /\ callArgs.credentials.provider = "xai"
    /\ callArgs.credentials.base_url = JStr("https://proxy.example/v2")
    /\ callRet[1]["OPENAI_BASE_URL"] = "https://proxy.example/v2"
    /\ callRet[1]["OPENAI_API_KEY"] = "k"

RECURSIVE Norm(_)
\* a text with adjacent pieces of the same word joined
Norm(s) ==
    IF Len(s) <= 1 THEN s
    ELSE LET r == Norm(Tail(s))
         IN  IF Head(r).w = Head(s).w
             THEN <<Piece(Head(s).w, Head(s).n + Head(r).n)>> \o Tail(r)
             ELSE <<Head(s)>> \o r

\* what a prompt holds between the heading of the previous output and the
\* separator before the task reminder
Embedded(p) ==
    LET h == CHOOSE i \in 1..Len(p) : p[i].w = "# Previous Turn Output\n\n"
        r == CHOOSE i \in 1..Len(p) : p[i].w = "# Task Reminder\n\n**Task ID:** "
    IN  SubSeq(p, h + 1, r - 2)

followUpReturned ==
    callPc = "returned" /\ callArgs.fn = "buildFollowUpTurnPrompt"

\* C29: the follow-up prompt embeds a previous output of at most 8000
\* characters unchanged, and of a longer one the truncation notice followed
\* by exactly its last 8000 characters.
C29_Truncation ==
    followUpReturned =>
        LET prev == callArgs.text
            emb == Embedded(callRet[1])
            n == StrLen(prev)
        IN  IF n <= 8000
            THEN emb = prev
            ELSE /\ Head(emb) = Piece("...(truncated)...\n", 1)
                 /\ StrLen(Tail(emb)) = 8000
                 /\ Norm(Take(prev, n - 8000) \o Tail(emb)) = Norm(prev)

\* C29 witness: of 8000 characters x and one y the prompt embeds the notice,
\* 7999 x and the y
C29_Witness ==
    /\ followUpReturned
    /\ callArgs.text = <<Piece("x", 8000), Piece("y", 1)>>
    /\ Embedded(callRet[1]) =
          <<Piece("...(truncated)...\n", 1), Piece("x", 7999), Piece("y", 1)>>

RECURSIVE Expand(_)
\* a text as the sequence of its pieces' words, each written out n times
Expand(s) ==
    IF s = <<>> THEN <<>>
    ELSE [i \in 1..Head(s).n |-> Head(s).w] \o Expand(Tail(s))

\* characters that are not literal outside quotes
SHELL_SPECIAL == {"$", "\"", ";", "&", "|", "<", ">", "(", ")", "*", "?"}

RECURSIVE ShellWords(_, _, _, _, _)
\* the words a POSIX shell makes of a command line: blanks part the words,
\* between single quotes every character is literal, a backslash outside
\* quotes makes the next character literal
ShellWords(toks, mode, cur, inWord, words) ==
    IF toks = <<>>
    THEN IF mode # "plain" THEN [ok |-> FALSE, words |-> words]
         ELSE [ok |-> TRUE,
               words |-> IF inWord THEN Append(words, cur) ELSE words]
    ELSE LET c == Head(toks)
             rest == Tail(toks)
         IN  CASE mode = "single" ->
                    IF c = "'"
                    THEN ShellWords(rest, "plain", cur, TRUE, words)
                    ELSE ShellWords(rest, "single", Append(cur, c), TRUE, words)
               [] mode = "escape" ->
                    IF c = "\n"
                    THEN ShellWords(rest, "plain", cur, inWord, words)
                    ELSE ShellWords(rest, "plain", Append(cur, c), TRUE, words)
               [] OTHER ->
                    IF c = "'"
                    THEN ShellWords(rest, "single", cur, TRUE, words)
                    ELSE IF c = "\\"
                    THEN ShellWords(rest, "escape", cur, inWord, words)
                    ELSE IF c \in {" ", "\n"}
                    THEN ShellWords(rest, "plain", <<>>, FALSE,
                                    IF inWord THEN Append(words, cur) ELSE words)
                    ELSE IF c \in SHELL_SPECIAL
                    THEN [ok |-> FALSE, words |-> words]
                    ELSE ShellWords(rest, "plain", Append(cur, c), TRUE, words)

ShellParse(s) == ShellWords(Expand(s), "plain", <<>>, FALSE, <<>>)

commandReturned == callPc = "returned" /\ callArgs.fn = "Command"

\* the model flag of the command: none, or --model and the model's name
ModelWords(m) ==
    IF m.defined /\ StrLen(m.text) > 0 THEN <<<<"--model">>, Expand(m.text)>>
    ELSE <<>>

\* C30: the escaping is a round trip: for every prompt, the escaped prompt
\* between single quotes is one shell word whose value is the prompt, and
\* (with a model_override that holds no single quote) the command is the
\* words of the CLI followed by the prompt as one argument.
C30_RoundTrip ==
    commandReturned =>
        /\ ShellParse(<<Piece("'", 1)>> \o Escape(callArgs.text)
                        \o <<Piece("'", 1)>>)
             = [ok |-> TRUE, words |-> <<Expand(callArgs.text)>>]
        /\ (~ Includes(callArgs.model_override.text, QUOTE)) =>
           ShellParse(callRet[1])
             = [ok |-> TRUE,
                words |-> <<<<"openclaw">>, <<"chat">>, <<"--once">>,
                            <<"--url">>, <<"ws://localhost:18789">>>>
                          \o ModelWords(callArgs.model_override)
                          \o <<Expand(callArgs.text)>>]

\* C30 witness: a prompt of two quotes and a backslash arrives as the sixth
\* word of the command
C30_Witness ==
    /\ commandReturned
    /\ callArgs.text = <<Piece("'", 2), Piece("\\", 1)>>
    /\ ~ callArgs.model_override.defined
    /\ Len(ShellParse(callRet[1]).words) = 6
    /\ ShellParse(callRet[1]).words[6] = <<"'", "'", "\\">>

\* a record has been pushed in this step
recordPushed == Len(turnOutputs') = Len(turnOutputs) + 1

\* the record pushed in this step
pushedRecord == turnOutputs'[Len(turnOutputs')]

\* the classification of a turn from its stdout and its exit code alone
Classified(out, code) ==
    IF Includes(out, "[TASK_COMPLETE]") THEN TRUE
    ELSE IF code # 0 THEN FALSE
    ELSE IF Includes(out, "[NEEDS_REFINEMENT]") THEN FALSE
    ELSE StrLen(out) > 100 /\ ~ HasIndicator(out)

\* C31: the completed flag stored in each record depends only on the stdout
\* and the exit code of its turn: it is one fixed function of the two,
\* whatever the turn index, max_iterations, the elapsed time or the outputs
\* of the earlier turns.
C31_FlagOfTurnOnly ==
    [][recordPushed =>
          pushedRecord.completed = Classified(pushedRecord.output, exitCode')]_vars

\* C31 witness: the first and the third turn wrote the same stdout after
\* different durations, with another stdout in between, and got the same
\* flag
C31_Witness ==
    /\ pc = "done"
    /\ maxIterations = 3
    /\ Len(turnOutputs) = 3
    /\ turnOutputs[1].output = Run("x", 101)
    /\ turnOutputs[3].output = turnOutputs[1].output
    /\ turnOutputs[2].output # turnOutputs[1].output
    /\ turnOutputs[1].duration_ms # turnOutputs[3].duration_ms
    /\ turnOutputs[1].completed = turnOutputs[3].completed
    /\ exitCode = 1

\* C33: a turn whose process has no exit code when the wait returns is
\* treated as exit code 1: without the done marker its record has
\* completed=false, and if it is the final turn the result has
\* success=false.
C33_NoExitCode ==
    [][(pc = "logs" /\ procExitCode.isNull /\ recordPushed) =>
          /\ exitCode' = 1
          /\ (~ Includes(pushedRecord.output, "[TASK_COMPLETE]"))
                => ~ pushedRecord.completed
          /\ turn = maxIterations =>
                /\ pc' = "done"
                /\ "output" \in response'.present
                /\ response'.success = FALSE]_vars

\* C33 witness: the final turn of three wrote more than 100 clean
\* characters, its process had no exit code, and the result is a failure
C33_Witness ==
    /\ loopReturned
    /\ procExitCode.isNull
    /\ exitCode = 1
    /\ maxIterations = 3
    /\ Len(turnOutputs) = 3
    /\ lastRecord.output = Run("x", 101)
    /\ ~ lastRecord.completed
    /\ response.success = FALSE

\* C34: a non-zero exit code on a turn n < max_iterations never ends the
\* loop by itself: if the output lacks the done marker, the turn is recorded
\* with completed=false, the loop goes on to turn n+1, and turn n+1 is
\* started whenever the remaining budget is at least the minimum.
C34_FailureAbsorbed ==
    /\ [][(pc = "logs" /\ recordPushed /\ exitCode' # 0
             /\ turn < maxIterations
             /\ ~ Includes(pushedRecord.output, "[TASK_COMPLETE]"))
            => /\ ~ pushedRecord.completed
               /\ pushedRecord.turn = turn
               /\ pc' = "turn_begin"
               /\ turn' = turn + 1
               /\ response' = response]_vars
    /\ [][(pc = "turn_begin" /\ turn <= maxIterations /\ isMultiTurn
             /\ 270000 - (now - startTime) >= 60000)
            => pc' = "start" /\ response' = response]_vars

\* C34 witness: turn 2 is being started after turn 1 exited with code 1
\* without the done marker
C34_Witness ==
    /\ pc = "start"
    /\ turn = 2
    /\ exitCode = 1
    /\ ~ procExitCode.isNull
    /\ Len(turnOutputs) = 1
    /\ ~ turnOutputs[1].completed
    /\ ~ Includes(turnOutputs[1].output, "[TASK_COMPLETE]")

\* a turn of a multi-turn task has been started and not yet recorded
turnUnderWay == isMultiTurn /\ pc \in {"start", "wait", "logs"}

C37_ReadinessConsumesBudget ==
    /\ [][(pc = "ensure" /\ pc' = "turn_begin")
            => /\ startTime' = startTime
               /\ startTime' <= now
               /\ now' - startTime' >= now' - now]_vars
    /\ [][(pc = "turn_begin" /\ turn = 1 /\ isMultiTurn
             /\ now - startTime > 210000)
            => /\ pc' = "done"
               /\ procsStarted' = 0
               /\ response'.present =
                     {"success", "output", "duration_ms", "turns_used",
                      "turn_outputs", "error"}
               /\ response'.success = FALSE
               /\ response'.turns_used = 0
               /\ response'.output = <<>>
               /\ response'.turn_outputs = <<>>
               /\ response'.error = <<Piece("No output produced", 1)>>]_vars

\* C37 witness: the gateway was ready after 210001 ms and the invocation of
\* a multi-turn task has returned without a turn
C37_Witness ==
    /\ loopReturned
    /\ isMultiTurn
    /\ ensureCalls = 1
    /\ procsStarted = 0
    /\ response.duration_ms = 210001
    /\ response.turns_used = 0
    /\ response.error = <<Piece("No output produced", 1)>>

\* C35: every invocation terminates: when every collaborator call returns
\* or throws, the handler reaches its terminal state and returns a result
\* after at most max_iterations turn executions, and no turn index is
\* executed twice.
C35_Terminates ==
    /\ <>(pc = "done" /\ response.status # 0)
    /\ [](procsStarted <= maxIterations /\ Len(turnOutputs) <= procsStarted)
    /\ [](pc \in {"start", "wait", "logs"} =>
             \A i \in 1..Len(turnOutputs) : turnOutputs[i].turn < turn)
    /\ [](\A i, j \in 1..Len(turnOutputs) :
             i < j => turnOutputs[i].turn < turnOutputs[j].turn)
    /\ [][pc = "done" => (pc' = "done" /\ response' = response)]_vars

\* C35 witness: a task with max_iterations 5 has returned after five turn
\* executions with the indices 1 to 5
C35_Witness ==
    /\ loopReturned
    /\ maxIterations = 5
    /\ procsStarted = 5
    /\ \A i \in 1..5 : turnOutputs[i].turn = i

firstTurnReturned == callPc = "returned" /\ callArgs.fn = "buildFirstTurnPrompt"

\* the text holds the marker m, in whichever piece
Names(s, m) == \E i \in 1..Len(s) : StrIncludes(s[i].w, m)

\* C32: in single-shot mode (max_iterations = 1) the first-turn prompt
\* holds no completion marker, [TASK_COMPLETE] or [NEEDS_REFINEMENT], for
\* every request, the requests detected as planning tasks included; in
\* multi-turn mode the first-turn instructions name both markers.
C32_MarkersByMode ==
    firstTurnReturned =>
        IF MaxIterationsOf(callArgs.req) = 1
        THEN /\ ~ Names(callRet[1], "[TASK_COMPLETE]")
             /\ ~ Names(callRet[1], "[NEEDS_REFINEMENT]")
        ELSE /\ Names(callRet[1], "[TASK_COMPLETE]")
             /\ Names(callRet[1], "[NEEDS_REFINEMENT]")

\* C38: every text of the request in the command line is escaped before it
\* is put between single quotes: for every request the command parses to
\* the words of the CLI, at most one --model argument and exactly one
\* prompt argument; this holds for model_override as for the prompt.
C38_EveryTextEscaped ==
    commandReturned =>
        LET parsed == ShellParse(callRet[1])
            m == callArgs.model_override
        IN  /\ parsed.ok
            /\ parsed.words
                 = <<<<"openclaw">>, <<"chat">>, <<"--once">>, <<"--url">>,
                     <<"ws://localhost:18789">>>>
                   \o (IF m.defined /\ StrLen(m.text) > 0
                       THEN <<<<"--model">>, Expand(m.text)>>
                       ELSE <<>>)
                   \o <<Expand(callArgs.text)>>

=============================================================================
